---- MODULE Spec2Model ----
(***************************************************************************)
(* A model of bayesml/metatree/_metatree_x_discrete.py: the meta-tree      *)
(* nodes, the LearnModel's candidate list and weight vector, set_h0_params *)
(* / set_hn_params, update_posterior (given_MT and MTRF), the merge of     *)
(* structurally equal candidates, prediction and estimate_params, and      *)
(* GenModel.set_h_params, gen_params and set_params.                       *)
(*                                                                         *)
(* Conventions.                                                            *)
(*  - A real number is an exact fraction <<n, d>> in lowest terms, d > 0.  *)
(*    Floating point rounding, and the log/exp detour of the reweighting,  *)
(*    are modelled by the exact value they approximate.                    *)
(*  - None is <<>> and a value v that may be None is <<v>>; a split        *)
(*    feature k that is None is -1.                                        *)
(*  - A tree is a function from paths (sequences of child indexes, the     *)
(*    root being <<>>) to node records; children[i] of the node at path p  *)
(*    is not None iff Append(p, i) is in the tree's domain.                *)
(*  - A python list or numpy array is a sequence; index i of the source is *)
(*    index i+1 here.                                                      *)
(***************************************************************************)
EXTENDS Integers, Sequences, FiniteSets, TLC

VARIABLES
    model_class,            \* which class was constructed: "LearnModel" or "GenModel"
    h0_g,                   \* LearnModel.h0_g
    h0_metatree_list,       \* LearnModel.h0_metatree_list
    h0_metatree_prob_vec,   \* LearnModel.h0_metatree_prob_vec
    hn_g,                   \* LearnModel.hn_g
    hn_metatree_list,       \* LearnModel.hn_metatree_list
    hn_metatree_prob_vec,   \* LearnModel.hn_metatree_prob_vec
    h_g,                    \* GenModel.h_g
    h_metatree_list,        \* GenModel.h_metatree_list
    h_metatree_prob_vec,    \* GenModel.h_metatree_prob_vec
    root,                   \* GenModel.root
    last,                   \* the last call: its name, arguments and outcome
    ops                     \* number of calls made so far

vars == <<model_class, h0_g, h0_metatree_list, h0_metatree_prob_vec,
          hn_g, hn_metatree_list, hn_metatree_prob_vec,
          h_g, h_metatree_list, h_metatree_prob_vec, root, last, ops>>

learn_vars == <<h0_g, h0_metatree_list, h0_metatree_prob_vec,
                hn_g, hn_metatree_list, hn_metatree_prob_vec>>

gen_vars == <<h_g, h_metatree_list, h_metatree_prob_vec, root>>

----------------------------------------------------------------------------
(* Bounds of the model *)

MaxOps == 2          \* calls per behaviour
MaxTrees == 2        \* longest candidate list a caller passes
MaxEstimators == 3   \* largest n_estimators of an MTRF call
MaxDraws == 3        \* calls of gen_params per behaviour

(* The model's constants c_k, c_d_max, c_num_children (constructor arguments) *)
c_k == 2
c_d_max == 2
c_num_children == 2

----------------------------------------------------------------------------
(* Option values *)

None == <<>>
Some(v) == <<v>>
Val(o) == o[1]
NoneK == -1

----------------------------------------------------------------------------
(* Exact arithmetic standing for the floats of the source *)

Abs(n) == IF n < 0 THEN -n ELSE n

RECURSIVE GCD(_, _)
GCD(a, b) == IF b = 0 THEN a ELSE GCD(b, a % b)

Frac(n, d) ==
    LET s == IF d < 0 THEN -1 ELSE 1
        g == GCD(Abs(n), Abs(d))
    IN  <<(s * n) \div g, (s * d) \div g>>

Zero == <<0, 1>>
One == <<1, 1>>
Half == <<1, 2>>

RAdd(a, b) == Frac(a[1] * b[2] + b[1] * a[2], a[2] * b[2])
RSub(a, b) == Frac(a[1] * b[2] - b[1] * a[2], a[2] * b[2])
RMul(a, b) == Frac(a[1] * b[1], a[2] * b[2])
RDiv(a, b) == Frac(a[1] * b[2], a[2] * b[1])
RLt(a, b) == a[1] * b[2] < b[1] * a[2]
RLe(a, b) == a[1] * b[2] <= b[1] * a[2]

RECURSIVE RSum(_)
RSum(v) == IF v = <<>> THEN Zero ELSE RAdd(v[1], RSum(Tail(v)))

RECURSIVE RMax(_)
RMax(v) ==
    IF Len(v) = 1 THEN v[1]
    ELSE LET m == RMax(Tail(v)) IN IF RLt(v[1], m) THEN m ELSE v[1]

----------------------------------------------------------------------------
(* The leaf model: bernoulli.LearnModel, a Beta(hn_alpha, hn_beta) posterior *)
(* with the cached parameter p_theta of its predictive distribution.         *)

\* bernoulli.LearnModel(): the default prior Beta(1/2, 1/2)
BernoulliLearnModel ==
    [hn_alpha |-> Half, hn_beta |-> Half, p_theta |-> Half]

\* sub_model.calc_pred_dist(): p_theta = hn_alpha / (hn_alpha + hn_beta)
sub_calc_pred_dist(m) ==
    [m EXCEPT !.p_theta = RDiv(m.hn_alpha, RAdd(m.hn_alpha, m.hn_beta))]

\* sub_model.make_prediction(loss='KL')[y]: the predictive mass of y
sub_pred_mass(m, y) == IF y = 1 THEN m.p_theta ELSE RSub(One, m.p_theta)

\* sub_model.make_prediction(loss='squared'): the cached p_theta
sub_make_prediction_squared(m) == m.p_theta

\* sub_model.make_prediction(loss='0-1'): 1 if p_theta > 0.5, else 0
sub_make_prediction_01(m) == IF RLt(Half, m.p_theta) THEN 1 ELSE 0

\* sub_model.update_posterior(y): hn_alpha += y, hn_beta += 1 - y
sub_update_posterior(m, y) ==
    [m EXCEPT !.hn_alpha = RAdd(m.hn_alpha, <<y, 1>>),
              !.hn_beta = RAdd(m.hn_beta, <<1 - y, 1>>)]

\* bernoulli.GenModel(): the prior Beta(h_alpha, h_beta) and the parameter
\* theta; the values gen_params draws for theta are not told apart
BernoulliGenModel == [h_alpha |-> Half, h_beta |-> Half, theta |-> Half]

----------------------------------------------------------------------------
(* Nodes and trees *)

\* _Node.__init__: children all None, k None, leaf False, map_leaf False
_Node(depth, k_candidates, g, sub_model) ==
    [depth |-> depth, k_candidates |-> k_candidates, h_g |-> g, k |-> NoneK,
     sub_model |-> sub_model, leaf |-> FALSE, map_leaf |-> FALSE]

\* n copies of w in a row: [w] * n, np.ones(n) * w
RECURSIVE Fill(_, _)
Fill(w, n) == IF n <= 0 THEN <<>> ELSE Append(Fill(w, n - 1), w)

\* list(range(n))
RECURSIVE Range(_)
Range(n) == IF n <= 0 THEN <<>> ELSE Append(Range(n - 1), n - 1)

\* list(range(self.c_k))
AllFeatures == Range(c_k)

\* the entries of f whose index is in S, in the order of f, from index i on
RECURSIVE Select(_, _, _)
Select(f, S, i) ==
    IF i > Len(f) THEN <<>>
    ELSE (IF i \in S THEN <<f[i]>> ELSE <<>>) \o Select(f, S, i + 1)

\* child_k_candidates = copy.copy(k_candidates); child_k_candidates.remove(k)
Remove(s, k) == Select(s, {i \in 1..Len(s) : s[i] # k}, 1)

InSeq(s, k) == \E i \in 1..Len(s) : s[i] = k

Children(p) == {Append(p, i) : i \in 0..(c_num_children - 1)}

IsPrefix(p, q) == Len(p) <= Len(q) /\ SubSeq(q, 1, Len(p)) = p

----------------------------------------------------------------------------
(* Tree skeletons: what a topology proposer (a fitted sklearn tree) or a   *)
(* caller's reference tree looks like.  A skeleton maps each path to the   *)
(* feature split on there, NoneK at a leaf; no feature repeats on a path   *)
(* and no node is deeper than c_d_max.                                     *)

LeafShape == [k |-> NoneK, ch |-> <<>>]

RECURSIVE Shapes(_, _)
Shapes(d, cands) ==
    {LeafShape} \cup
    IF d >= c_d_max \/ cands = {} THEN {}
    ELSE UNION {{[k |-> f, ch |-> ch] :
                    ch \in [1..c_num_children -> Shapes(d + 1, cands \ {f})]} :
                f \in cands}

RECURSIVE ShapePaths(_, _)
ShapePaths(s, p) ==
    {p} \cup
    IF s.k = NoneK THEN {}
    ELSE UNION {ShapePaths(s.ch[i], Append(p, i - 1)) : i \in 1..c_num_children}

RECURSIVE ShapeAt(_, _)
ShapeAt(s, p) == IF p = <<>> THEN s ELSE ShapeAt(s.ch[Head(p) + 1], Tail(p))

Skeleton(s) == [p \in ShapePaths(s, <<>>) |-> ShapeAt(s, p).k]

Skeletons == {Skeleton(s) : s \in Shapes(0, 0..(c_k - 1))}

\* A caller's reference tree: _Node objects linked in the shape of a skeleton,
\* each with stop weight g
RefTree(skel, g) ==
    [p \in DOMAIN skel |->
        [_Node(Len(p), <<>>, g, BernoulliLearnModel)
            EXCEPT !.k = skel[p], !.leaf = (skel[p] = NoneK)]]

----------------------------------------------------------------------------
(* LearnModel._copy_tree_from_sklearn_tree: original_tree is a skeleton,   *)
(* node_id the path p; g0 is self.h0_g.                                    *)

RECURSIVE _copy_tree_from_sklearn_tree(_, _, _, _)
_copy_tree_from_sklearn_tree(t, p, original_tree, g0) ==
    IF original_tree[p] # NoneK
    THEN LET t1 == [t EXCEPT ![p].k = original_tree[p]]
             child_k_candidates == Remove(t1[p].k_candidates, t1[p].k)
             c0 == Append(p, 0)
             c1 == Append(p, 1)
             new == _Node(t1[p].depth + 1, child_k_candidates, g0,
                          BernoulliLearnModel)
             t2 == _copy_tree_from_sklearn_tree(
                       (c0 :> new) @@ t1, c0, original_tree, g0)
         IN  _copy_tree_from_sklearn_tree(
                 (c1 :> new) @@ t2, c1, original_tree, g0)
    ELSE [t EXCEPT ![p].h_g = Zero, ![p].leaf = TRUE]

----------------------------------------------------------------------------
(* LearnModel._update_posterior_leaf and _update_posterior_recursion.      *)
(* x is the sequence of feature values, y the response.  The result is the *)
(* tree after the call, the evidence returned, and ok = FALSE when the     *)
(* call raised (a child slot that is None, a split feature that is None).  *)

\* variant: the leaf model takes the observation before its predictive is read
_update_posterior_leaf_update_first(t, p, x, y) ==
    LET m1 == sub_update_posterior(t[p].sub_model, y)
        m2 == sub_calc_pred_dist(m1)
    IN  [tree |-> [t EXCEPT ![p].sub_model = m2], ev |-> sub_pred_mass(m2, y), ok |-> TRUE]

\* variant: a node that takes an observation is closed
_update_posterior_leaf_closing(t, p, x, y) ==
    LET m1 == sub_calc_pred_dist(t[p].sub_model)
        m2 == sub_update_posterior(m1, y)
    IN  [tree |-> [t EXCEPT ![p].sub_model = m2, ![p].leaf = TRUE],
         ev |-> sub_pred_mass(m1, y), ok |-> TRUE]

_update_posterior_leaf(t, p, x, y) ==
    LET m1 == sub_calc_pred_dist(t[p].sub_model)        \* calc_pred_dist
        pred == sub_pred_mass(m1, y)                     \* make_prediction('KL')
        m2 == sub_update_posterior(m1, y)                \* update_posterior
    IN  [tree |-> [t EXCEPT ![p].sub_model = m2], ev |-> pred, ok |-> TRUE]

\* variant: the child is chosen by the feature numbered as the depth, not by k
RECURSIVE _update_posterior_recursion_by_depth(_, _, _, _)
_update_posterior_recursion_by_depth(t, p, x, y) ==
    IF t[p].leaf = FALSE
    THEN IF t[p].k = NoneK \/ Append(p, x[t[p].depth + 1]) \notin DOMAIN t
         THEN [tree |-> t, ev |-> Zero, ok |-> FALSE]
         ELSE LET r1 == _update_posterior_recursion_by_depth(t, Append(p, x[t[p].depth + 1]), x, y)
                  tmp1 == r1.ev
                  r2 == _update_posterior_leaf(r1.tree, p, x, y)
                  g == r2.tree[p].h_g
                  tmp2 == RAdd(RMul(RSub(One, g), r2.ev), RMul(g, tmp1))
              IN  IF ~r1.ok THEN r1
                  ELSE [tree |-> [r2.tree EXCEPT ![p].h_g = RDiv(RMul(g, tmp1), tmp2)],
                        ev |-> tmp2, ok |-> TRUE]
    ELSE _update_posterior_leaf(t, p, x, y)

\* variant: the two weights of the mixture are exchanged
RECURSIVE _update_posterior_recursion_swapped(_, _, _, _)
_update_posterior_recursion_swapped(t, p, x, y) ==
    IF t[p].leaf = FALSE
    THEN IF t[p].k = NoneK \/ Append(p, x[t[p].k + 1]) \notin DOMAIN t
         THEN [tree |-> t, ev |-> Zero, ok |-> FALSE]
         ELSE LET r1 == _update_posterior_recursion_swapped(t, Append(p, x[t[p].k + 1]), x, y)
                  tmp1 == r1.ev
                  r2 == _update_posterior_leaf(r1.tree, p, x, y)
                  g == r2.tree[p].h_g
                  tmp2 == RAdd(RMul(g, r2.ev), RMul(RSub(One, g), tmp1))
              IN  IF ~r1.ok THEN r1
                  ELSE [tree |-> [r2.tree EXCEPT ![p].h_g = RDiv(RMul(g, tmp1), tmp2)],
                        ev |-> tmp2, ok |-> TRUE]
    ELSE _update_posterior_leaf(t, p, x, y)

\* variant: the new stop weight is tmp1 / tmp2, without the factor g
RECURSIVE _update_posterior_recursion_no_g(_, _, _, _)
_update_posterior_recursion_no_g(t, p, x, y) ==
    IF t[p].leaf = FALSE
    THEN IF t[p].k = NoneK \/ Append(p, x[t[p].k + 1]) \notin DOMAIN t
         THEN [tree |-> t, ev |-> Zero, ok |-> FALSE]
         ELSE LET r1 == _update_posterior_recursion_no_g(t, Append(p, x[t[p].k + 1]), x, y)
                  tmp1 == r1.ev
                  r2 == _update_posterior_leaf(r1.tree, p, x, y)
                  g == r2.tree[p].h_g
                  tmp2 == RAdd(RMul(RSub(One, g), r2.ev), RMul(g, tmp1))
              IN  IF ~r1.ok THEN r1
                  ELSE [tree |-> [r2.tree EXCEPT ![p].h_g = RDiv(tmp1, tmp2)],
                        ev |-> tmp2, ok |-> TRUE]
    ELSE _update_posterior_leaf(t, p, x, y)

\* variant: the new stop weight is the share of stopping, not of splitting
RECURSIVE _update_posterior_recursion_complement(_, _, _, _)
_update_posterior_recursion_complement(t, p, x, y) ==
    IF t[p].leaf = FALSE
    THEN IF t[p].k = NoneK \/ Append(p, x[t[p].k + 1]) \notin DOMAIN t
         THEN [tree |-> t, ev |-> Zero, ok |-> FALSE]
         ELSE LET r1 == _update_posterior_recursion_complement(t, Append(p, x[t[p].k + 1]), x, y)
                  tmp1 == r1.ev
                  r2 == _update_posterior_leaf(r1.tree, p, x, y)
                  g == r2.tree[p].h_g
                  tmp2 == RAdd(RMul(RSub(One, g), r2.ev), RMul(g, tmp1))
              IN  IF ~r1.ok THEN r1
                  ELSE [tree |-> [r2.tree EXCEPT ![p].h_g =
                                     RDiv(RMul(RSub(One, g), r2.ev), tmp2)],
                        ev |-> tmp2, ok |-> TRUE]
    ELSE _update_posterior_leaf(t, p, x, y)

RECURSIVE _update_posterior_recursion(_, _, _, _)
_update_posterior_recursion(t, p, x, y) ==
    IF t[p].leaf = FALSE
    THEN IF t[p].k = NoneK \/ Append(p, x[t[p].k + 1]) \notin DOMAIN t
         THEN [tree |-> t, ev |-> Zero, ok |-> FALSE]
         ELSE LET r1 == _update_posterior_recursion(
                            t, Append(p, x[t[p].k + 1]), x, y)
                  tmp1 == r1.ev
                  r2 == _update_posterior_leaf(r1.tree, p, x, y)
                  g == r2.tree[p].h_g
                  tmp2 == RAdd(RMul(RSub(One, g), r2.ev), RMul(g, tmp1))
              IN  IF ~r1.ok THEN r1
                  ELSE [tree |-> [r2.tree EXCEPT ![p].h_g =
                                     RDiv(RMul(g, tmp1), tmp2)],
                        ev |-> tmp2, ok |-> TRUE]
    ELSE _update_posterior_leaf(t, p, x, y)

----------------------------------------------------------------------------
(* LearnModel._compare_metatree_recursion and _marge_metatrees *)

\* variant: only the first pair of children is compared
RECURSIVE _compare_metatree_recursion_first_child(_, _, _, _)
_compare_metatree_recursion_first_child(t1, p1, t2, p2) ==
    IF t1[p1].leaf = TRUE /\ t2[p2].leaf = TRUE THEN TRUE
    ELSE IF t1[p1].k = t2[p2].k
         THEN _compare_metatree_recursion_first_child(t1, Append(p1, 0), t2, Append(p2, 0))
         ELSE FALSE

RECURSIVE _compare_metatree_recursion(_, _, _, _)
_compare_metatree_recursion(t1, p1, t2, p2) ==
    IF t1[p1].leaf = TRUE /\ t2[p2].leaf = TRUE THEN TRUE
    ELSE IF t1[p1].k = t2[p2].k
         THEN \A i \in 0..(c_num_children - 1) :
                 _compare_metatree_recursion(t1, Append(p1, i), t2, Append(p2, i))
         ELSE FALSE

Min(S) == CHOOSE m \in S : \A n \in S : m <= n

\* the inner loop of _marge_metatrees for index i; js holds the later
\* candidates equal to l[i], and the loop stops at the first of them
RECURSIVE marge_loop(_, _, _)
RECURSIVE marge_loop_body(_, _, _, _)
marge_loop_body(l, v, i, js) ==
    IF js = {} THEN marge_loop(l, v, i + 1)
    ELSE marge_loop([l EXCEPT ![i] = None],
                    [v EXCEPT ![Min(js)] = RAdd(v[Min(js)], v[i]),
                              ![i] = <<-1, 1>>],
                    i + 1)

\* variant: the later candidate of an equal pair is dropped and its mass added
\* to the earlier one
RECURSIVE marge_loop_keep_first(_, _, _)
marge_loop_keep_first(l, v, i) ==
    IF i > Len(l) THEN <<l, v>>
    ELSE IF l[i] = None THEN marge_loop_keep_first(l, v, i + 1)
    ELSE LET js == {j \in (i + 1)..Len(l) :
                       /\ l[j] # None
                       /\ _compare_metatree_recursion(Val(l[i]), <<>>, Val(l[j]), <<>>)}
         IN  marge_loop_keep_first(
                 [j \in 1..Len(l) |-> IF j \in js THEN None ELSE l[j]],
                 [j \in 1..Len(v) |->
                     IF j \in js THEN <<-1, 1>>
                     ELSE IF j = i THEN RAdd(v[i], RSum([n \in 1..Len(v) |->
                                                 IF n \in js THEN v[n] ELSE Zero]))
                     ELSE v[j]],
                 i + 1)

\* variant: the mass of the dropped candidate overwrites that of the kept one
RECURSIVE marge_loop_overwrite(_, _, _)
marge_loop_overwrite(l, v, i) ==
    IF i > Len(l) THEN <<l, v>>
    ELSE LET js == {j \in (i + 1)..Len(l) :
                       _compare_metatree_recursion(Val(l[i]), <<>>, Val(l[j]), <<>>)}
         IN  IF js = {} THEN marge_loop_overwrite(l, v, i + 1)
             ELSE marge_loop_overwrite([l EXCEPT ![i] = None],
                                       [v EXCEPT ![Min(js)] = v[i], ![i] = <<-1, 1>>],
                                       i + 1)

\* variant: both loops end at the first equal pair
marge_loop_first_pair(l, v, i) ==
    LET pairs == {q \in (1..Len(l)) \X (1..Len(l)) :
                     /\ i <= q[1] /\ q[1] < q[2]
                     /\ _compare_metatree_recursion(Val(l[q[1]]), <<>>, Val(l[q[2]]), <<>>)}
        q == CHOOSE q \in pairs : \A r \in pairs :
                 q[1] < r[1] \/ (q[1] = r[1] /\ q[2] <= r[2])
    IN  IF pairs = {} THEN <<l, v>>
        ELSE <<[l EXCEPT ![q[1]] = None],
               [v EXCEPT ![q[2]] = RAdd(v[q[2]], v[q[1]]), ![q[1]] = <<-1, 1>>]>>

\* the double loop of _marge_metatrees from index i on; a dropped candidate
\* is None in l and -1 in v
marge_loop(l, v, i) ==
    IF i > Len(l) THEN <<l, v>>
    ELSE marge_loop_body(l, v, i,
             {j \in (i + 1)..Len(l) :
                 _compare_metatree_recursion(Val(l[i]), <<>>, Val(l[j]), <<>>)})

\* metatree_list as the loops see it, each entry a tree or None; from index
\* i on
RECURSIVE marge_list(_, _)
marge_list(l, i) ==
    IF i > Len(l) THEN <<>> ELSE <<Some(l[i])>> \o marge_list(l, i + 1)

\* [tmp for tmp in metatree_list if tmp != None], from index i on
RECURSIVE marge_kept(_, _)
marge_kept(l, i) ==
    IF i > Len(l) THEN <<>>
    ELSE (IF l[i] # None THEN <<Val(l[i])>> ELSE <<>>) \o marge_kept(l, i + 1)

\* the two filters: the list, and metatree_prob_vec[metatree_prob_vec > -0.5]
marge_filter(l, v) ==
    <<marge_kept(l, 1), Select(v, {i \in 1..Len(v) : RLt(<<-1, 2>>, v[i])}, 1)>>

marge_result(r) == marge_filter(r[1], r[2])

_marge_metatrees(metatree_list, metatree_prob_vec) ==
    marge_result(marge_loop(marge_list(metatree_list, 1), metatree_prob_vec, 1))

----------------------------------------------------------------------------
(* Argument checks of bayesml._check *)

float_in_closed01(g) == RLe(Zero, g) /\ RLe(g, One)

float_vec_sum_1(v) == RSum(v) = One

----------------------------------------------------------------------------
(* LearnModel: the recursions under set_hn_params.  hn is self.hn_g.       *)
(* A result [tree, ok] has ok = FALSE when the call raised; tree is then   *)
(* the tree as the exception left it.                                      *)

\* _set_hn_g_recursion at the node p of t; the loop over the children from
\* child i on
RECURSIVE _set_hn_g_recursion(_, _, _)
RECURSIVE set_hn_g_children(_, _, _, _)

set_hn_g_children(t, p, hn, i) ==
    IF i >= c_num_children THEN t
    ELSE set_hn_g_children(IF Append(p, i) \in DOMAIN t
                           THEN _set_hn_g_recursion(t, Append(p, i), hn)
                           ELSE t,
                           p, hn, i + 1)

_set_hn_g_recursion(t, p, hn) ==
    set_hn_g_children(
        [t EXCEPT ![p].h_g = IF t[p].depth = c_d_max THEN Zero ELSE hn], p, hn, 0)

\* for hn_root in self.hn_metatree_list: self._set_hn_g_recursion(hn_root)
RECURSIVE set_hn_g_roots(_, _, _)
set_hn_g_roots(l, hn, i) ==
    IF i > Len(l) THEN l
    ELSE set_hn_g_roots([l EXCEPT ![i] = _set_hn_g_recursion(l[i], <<>>, hn)],
                        hn, i + 1)

\* _set_sub_hn_params_recursion at the node p of t (sub_hn_params = {}); the
\* loop over the children from child i on
RECURSIVE _set_sub_hn_params_recursion(_, _)
RECURSIVE set_sub_hn_params_children(_, _, _)

set_sub_hn_params_children(t, p, i) ==
    IF i >= c_num_children THEN t
    ELSE set_sub_hn_params_children(IF Append(p, i) \in DOMAIN t
                                    THEN _set_sub_hn_params_recursion(t, Append(p, i))
                                    ELSE t,
                                    p, i + 1)

_set_sub_hn_params_recursion(t, p) ==
    set_sub_hn_params_children([t EXCEPT ![p].sub_model = BernoulliLearnModel], p, 0)

\* for hn_root in self.hn_metatree_list:
\*     self._set_sub_hn_params_recursion(hn_root)
RECURSIVE set_sub_hn_params_roots(_, _)
set_sub_hn_params_roots(l, i) ==
    IF i > Len(l) THEN l
    ELSE set_sub_hn_params_roots(
             [l EXCEPT ![i] = _set_sub_hn_params_recursion(l[i], <<>>)], i + 1)

\* node.sub_model.set_hn_params(*node.sub_model.get_hn_params().values()):
\* the leaf model keeps its posterior and refreshes its predictive parameter
sub_set_own_hn_params(m) == sub_calc_pred_dist(m)

RECURSIVE _set_hn_params_recursion(_, _, _, _)
RECURSIVE set_hn_params_children(_, _, _, _, _)

_set_hn_params_recursion(t, p, original_tree, hn) ==
    IF p \notin DOMAIN original_tree          \* original_tree_node is None
    THEN set_hn_params_children(
             [tree |-> [t EXCEPT ![p].h_g = IF t[p].depth = c_d_max
                                            THEN Zero ELSE hn,
                                 ![p].sub_model = BernoulliLearnModel],
              ok |-> TRUE],
             p, original_tree, hn, 0)
    ELSE LET o == original_tree[p]
             t1 == [t EXCEPT ![p].h_g = IF t[p].depth = c_d_max
                                        THEN Zero ELSE o.h_g,
                             ![p].sub_model = sub_set_own_hn_params(@)]
         IN  IF o.leaf \/ t[p].depth = c_d_max
             THEN [tree |-> [t1 EXCEPT ![p].leaf = TRUE], ok |-> TRUE]
             ELSE IF ~InSeq(t1[p].k_candidates, o.k)
                  \* child_k_candidates.remove(node.k) raises ValueError
                  THEN [tree |-> [t1 EXCEPT ![p].k = o.k], ok |-> FALSE]
                  ELSE set_hn_params_children(
                           [tree |-> [t1 EXCEPT ![p].k = o.k, ![p].leaf = FALSE],
                            ok |-> TRUE],
                           p, original_tree, hn, 0)

\* the loop over range(c_num_children) of _set_hn_params_recursion, from i on
set_hn_params_children(r, p, original_tree, hn, i) ==
    IF i = c_num_children \/ ~r.ok THEN r
    ELSE LET c == Append(p, i)
             t == r.tree
         IN  IF p \notin DOMAIN original_tree
             THEN IF c \in DOMAIN t
                  THEN set_hn_params_children(
                           _set_hn_params_recursion(t, c, original_tree, hn),
                           p, original_tree, hn, i + 1)
                  ELSE set_hn_params_children(r, p, original_tree, hn, i + 1)
             ELSE LET new == _Node(t[p].depth + 1,
                                   Remove(t[p].k_candidates, t[p].k),
                                   Half, BernoulliLearnModel)
                      t1 == IF c \in DOMAIN t THEN t ELSE (c :> new) @@ t
                  IN  set_hn_params_children(
                          _set_hn_params_recursion(t1, c, original_tree, hn),
                          p, original_tree, hn, i + 1)

\* LearnModel._calc_pred_dist_recursion and _calc_pred_dist_leaf
RECURSIVE _calc_pred_dist_recursion(_, _, _)
_calc_pred_dist_recursion(t, p, x) ==
    IF t[p].leaf = FALSE
    THEN IF t[p].k = NoneK \/ Append(p, x[t[p].k + 1]) \notin DOMAIN t
         THEN [tree |-> t, ok |-> FALSE]
         ELSE _calc_pred_dist_recursion(t, Append(p, x[t[p].k + 1]), x)
    ELSE [tree |-> [t EXCEPT ![p].sub_model = sub_calc_pred_dist(@)],
          ok |-> TRUE]

\* LearnModel.calc_pred_dist(x) over self.hn_metatree_list, from tree i on;
\* r is the outcome of the recursion in tree i
RECURSIVE calc_pred_dist(_, _, _)
RECURSIVE calc_pred_dist_next(_, _, _, _)

calc_pred_dist_next(l, x, i, r) ==
    IF ~r.ok THEN [list |-> l, ok |-> FALSE]
    ELSE calc_pred_dist([l EXCEPT ![i] = r.tree], x, i + 1)

calc_pred_dist(l, x, i) ==
    IF i > Len(l) THEN [list |-> l, ok |-> TRUE]
    ELSE calc_pred_dist_next(l, x, i, _calc_pred_dist_recursion(l[i], <<>>, x))

----------------------------------------------------------------------------
(* LearnModel.set_hn_params.  S = [g, list, vec] stands for self.hn_g,     *)
(* self.hn_metatree_list, self.hn_metatree_prob_vec; a = [g, sub, list,    *)
(* vec] are the arguments hn_g, sub_hn_params (TRUE: given, as {}),        *)
(* hn_metatree_list, hn_metatree_prob_vec, None when not given.  The       *)
(* result is [S, ok]: the fields after the call and whether it returned.   *)

\* lines 1152-1156: if hn_g is not None
set_hn_params_g(S, a) ==
    IF a.g = None THEN [S |-> S, ok |-> TRUE]
    ELSE IF ~float_in_closed01(Val(a.g)) THEN [S |-> S, ok |-> FALSE]
    ELSE [S |-> [S EXCEPT !.g = Val(a.g),
                          !.list = set_hn_g_roots(S.list, Val(a.g), 1)],
          ok |-> TRUE]

\* lines 1158-1163: if sub_hn_params is not None
set_hn_params_sub(S, a) ==
    IF ~a.sub THEN S
    ELSE [S EXCEPT !.list = set_sub_hn_params_roots(S.list, 1)]

\* lines 1176-1189: the list is cut or extended to the length of the argument
set_hn_params_resize(S, n) ==
    IF n <= Len(S.list) THEN SubSeq(S.list, 1, n)
    ELSE S.list \o Fill((<<>> :> _Node(0, AllFeatures, S.g, BernoulliLearnModel)),
                        n - Len(S.list))

\* lines 1190-1191: each tree takes the shape of its reference, from tree i on;
\* r is the outcome of the recursion in tree i
RECURSIVE set_hn_params_trees(_, _, _, _)
RECURSIVE set_hn_params_trees_next(_, _, _, _, _)

set_hn_params_trees_next(l, refs, hn, i, r) ==
    IF ~r.ok THEN [list |-> [l EXCEPT ![i] = r.tree], ok |-> FALSE]
    ELSE set_hn_params_trees([l EXCEPT ![i] = r.tree], refs, hn, i + 1)

set_hn_params_trees(l, refs, hn, i) ==
    IF i > Len(l) THEN [list |-> l, ok |-> TRUE]
    ELSE set_hn_params_trees_next(l, refs, hn, i,
             _set_hn_params_recursion(l[i], <<>>, refs[i], hn))

\* lines 1192-1213: the weight vector is checked and stored, or set to the
\* uniform one, or to None
set_hn_params_vec(S, a) ==
    IF a.vec # None
    THEN IF float_vec_sum_1(Val(a.vec))
         THEN [S |-> [S EXCEPT !.vec = a.vec], ok |-> TRUE]
         ELSE [S |-> S, ok |-> FALSE]
    ELSE IF a.list = None THEN [S |-> S, ok |-> TRUE]
    ELSE IF Val(a.list) # <<>>
         THEN [S |-> [S EXCEPT !.vec = Some(Fill(Frac(1, Len(S.list)),
                                                 Len(S.list)))],
               ok |-> TRUE]
         ELSE [S |-> [S EXCEPT !.vec = None], ok |-> TRUE]

\* r is the outcome of lines 1176-1191
set_hn_params_list_next(S, a, r) ==
    IF ~r.ok THEN [S |-> [S EXCEPT !.list = r.list], ok |-> FALSE]
    ELSE set_hn_params_vec([S EXCEPT !.list = r.list], a)

\* lines 1165-1213: if hn_metatree_list is not None / elif
set_hn_params_list(S, a) ==
    IF a.list # None
    THEN set_hn_params_list_next(S, a,
             set_hn_params_trees(set_hn_params_resize(S, Len(Val(a.list))),
                                 Val(a.list), S.g, 1))
    ELSE set_hn_params_vec(S, a)

\* lines 1215-1228: the closing test of the two lengths
set_hn_params_lengths_ok(S) ==
    IF S.vec # None THEN Len(Val(S.vec)) = Len(S.list)
    ELSE Len(S.list) = 0

\* line 1230: r4 is the outcome of calc_pred_dist
set_hn_params_end(S, r4) == [S |-> [S EXCEPT !.list = r4.list], ok |-> r4.ok]

\* r3 is the outcome of lines 1165-1213
set_hn_params_check(r3) ==
    IF ~r3.ok THEN r3
    ELSE IF ~set_hn_params_lengths_ok(r3.S) THEN [S |-> r3.S, ok |-> FALSE]
    ELSE set_hn_params_end(r3.S, calc_pred_dist(r3.S.list, Fill(0, c_k), 1))

\* r1 is the outcome of lines 1152-1156
set_hn_params_next(r1, a) ==
    IF ~r1.ok THEN r1
    ELSE set_hn_params_check(set_hn_params_list(set_hn_params_sub(r1.S, a), a))

set_hn_params(S, a) == set_hn_params_next(set_hn_params_g(S, a), a)

----------------------------------------------------------------------------
(* LearnModel.set_h0_params and base.Posterior.reset_hn_params.  The text  *)
(* of set_h0_params and of its recursions is that of set_hn_params with h0 *)
(* for hn, up to its last line: reset_hn_params() for calc_pred_dist().    *)

_set_h0_g_recursion(t, p, h0) == _set_hn_g_recursion(t, p, h0)

_set_sub_h0_params_recursion(t, p) == _set_sub_hn_params_recursion(t, p)

_set_h0_params_recursion(t, p, original_tree, h0) ==
    _set_hn_params_recursion(t, p, original_tree, h0)

\* r3 is the outcome of the list and vector part of set_h0_params
set_h0_params_check(r3) ==
    IF ~r3.ok THEN r3
    ELSE [S |-> r3.S, ok |-> set_hn_params_lengths_ok(r3.S)]

\* r1 is the outcome of the h0_g part of set_h0_params
set_h0_params_next(r1, a) ==
    IF ~r1.ok THEN r1
    ELSE set_h0_params_check(set_hn_params_list(set_hn_params_sub(r1.S, a), a))

\* lines 1018-1094 of set_h0_params: all but the closing reset_hn_params()
set_h0_params_fields(S, a) == set_h0_params_next(set_hn_params_g(S, a), a)

\* reset_hn_params(): self.set_hn_params(*self.get_h0_params().values())
reset_hn_params(S0, Sn) ==
    set_hn_params(Sn, [g |-> Some(S0.g), sub |-> TRUE,
                       list |-> Some(S0.list), vec |-> S0.vec])

\* n is the outcome of reset_hn_params()
set_h0_params_end(S0, n) == [S0 |-> S0, Sn |-> n.S, ok |-> n.ok]

\* r is the outcome of lines 1018-1094
set_h0_params_reset(r, Sn) ==
    IF ~r.ok THEN [S0 |-> r.S, Sn |-> Sn, ok |-> FALSE]
    ELSE set_h0_params_end(r.S, reset_hn_params(r.S, Sn))

\* The result is [S0, Sn, ok]: the h0 fields, the hn fields, returned or raised
set_h0_params(S0, Sn, a) == set_h0_params_reset(set_h0_params_fields(S0, a), Sn)

----------------------------------------------------------------------------
(* GenModel.set_h_params: the text of set_hn_params with h for hn and      *)
(* bernoulli.GenModel for bernoulli.LearnModel, without a closing call.    *)

_set_h_g_recursion(t, p, h) == _set_hn_g_recursion(t, p, h)

_set_sub_h_params_recursion(t, p) == _set_sub_hn_params_recursion(t, p)

_set_h_params_recursion(t, p, original_tree, h) ==
    _set_hn_params_recursion(t, p, original_tree, h)

set_h_params(S, a) == set_h0_params_fields(S, a)

----------------------------------------------------------------------------
(* The reweighting of _MTRF and _given_MT.  xs and ys are the rows of x    *)
(* and the entries of y; w[i] stands for exp(log_metatree_posteriors[i]).  *)

\* variant: the evidences are added to the running score
absorb_rows_next_added(r, u) == [tree |-> u.tree, w |-> RAdd(r.w, u.ev), ok |-> u.ok]

\* log_metatree_posteriors[i] += np.log(u), u the outcome of one absorb
absorb_rows_next(r, u) == [tree |-> u.tree, w |-> RMul(r.w, u.ev), ok |-> u.ok]

\* for j in range(x.shape[0]): ..., from row j on
RECURSIVE absorb_rows(_, _, _, _)
absorb_rows(r, xs, ys, j) ==
    IF j > Len(xs) \/ ~r.ok THEN r
    ELSE absorb_rows(absorb_rows_next(r, _update_posterior_recursion(
                                             r.tree, <<>>, xs[j], ys[j])),
                     xs, ys, j + 1)

\* for i, metatree in enumerate(metatree_list), from tree i on; index i of a
\* shorter log_metatree_posteriors raises IndexError before tree i is touched;
\* r is the outcome of the loop over the rows for tree i
RECURSIVE absorb_trees(_, _, _, _, _)
RECURSIVE absorb_trees_next(_, _, _, _, _, _)

absorb_trees_next(l, w, xs, ys, i, r) ==
    IF ~r.ok THEN [list |-> [l EXCEPT ![i] = r.tree], w |-> w, ok |-> FALSE]
    ELSE absorb_trees([l EXCEPT ![i] = r.tree], [w EXCEPT ![i] = r.w],
                      xs, ys, i + 1)

absorb_trees(l, w, xs, ys, i) ==
    IF i > Len(l) THEN [list |-> l, w |-> w, ok |-> TRUE]
    ELSE IF i > Len(w) THEN [list |-> l, w |-> w, ok |-> FALSE]
    ELSE absorb_trees_next(l, w, xs, ys, i,
             absorb_rows([tree |-> l[i], w |-> w[i], ok |-> TRUE], xs, ys, 1))

NaN == <<0, 0>>

\* v / d, entry by entry
RECURSIVE divide(_, _)
divide(v, d) == IF v = <<>> THEN <<>> ELSE <<RDiv(v[1], d)>> \o divide(Tail(v), d)

\* v[:] /= v.sum()
divide_by_sum(v) == divide(v, RSum(v))

\* variant: the division by the sum is left out
normalise_without_sum(w) ==
    IF RMax(w) = Zero THEN Fill(NaN, Len(w))
    ELSE divide(w, RMax(w))

\* v[:] = np.exp(l - l.max()); v[:] /= v.sum()
normalise(w) ==
    IF RMax(w) = Zero THEN Fill(NaN, Len(w))
    ELSE divide_by_sum(divide(w, RMax(w)))

\* the end of _given_MT, r the outcome of the loop over the trees
given_MT_end(S, r) ==
    IF ~r.ok THEN [S |-> [S EXCEPT !.list = r.list], ok |-> FALSE]
    ELSE [S |-> [S EXCEPT !.list = r.list, !.vec = Some(normalise(r.w))],
          ok |-> TRUE]

\* LearnModel._given_MT on S = [g, list, vec]; the result is [S, ok]
_given_MT(S, xs, ys) ==
    IF S.list = <<>> \/ S.vec = None THEN [S |-> S, ok |-> FALSE]
    ELSE given_MT_end(S, absorb_trees(S.list, Val(S.vec), xs, ys, 1))

\* variant: the candidates share the leaf model of their root
RECURSIVE share_root(_, _, _)
share_root(l, m, j) ==
    IF j > Len(l) THEN l
    ELSE share_root([l EXCEPT ![j] = [l[j] EXCEPT ![<<>>].sub_model = m]], m, j + 1)

absorb_one_shared(l, w, i, r) ==
    [list |-> share_root([l EXCEPT ![i] = r.tree], r.tree[<<>>].sub_model, 1),
     w |-> [w EXCEPT ![i] = r.w], ok |-> r.ok]

\* one pass of line 1388 for candidate i, r the outcome for its tree and its
\* score: no other candidate and no other score is written
absorb_one(l, w, i, r) ==
    [list |-> [l EXCEPT ![i] = r.tree], w |-> [w EXCEPT ![i] = r.w], ok |-> r.ok]

\* line 1388 for candidate i and row j
absorb_row(l, w, xs, ys, i, j) ==
    absorb_one(l, w, i,
               absorb_rows_next([tree |-> l[i], w |-> w[i], ok |-> TRUE],
                                _update_posterior_recursion(l[i], <<>>, xs[j], ys[j])))

\* the end of _MTRF, m the outcome of the merge and r that of the loop over
\* the trees; the result adds the weights the merge returned
MTRF_end(S, m, r) ==
    [S |-> [S EXCEPT !.list = r.list, !.vec = Some(normalise(r.w))],
     ok |-> r.ok,
     merged_vec |-> m[2]]

MTRF_absorb(S, m, xs, ys) == MTRF_end(S, m, absorb_trees(m[1], m[2], xs, ys, 1))

\* tmp_metatree_list after the loop of _copy_tree_from_sklearn_tree, from
\* estimator i on
RECURSIVE tmp_metatree_list(_, _, _, _)
tmp_metatree_list(S, h0, forest, i) ==
    IF i > Len(forest) THEN <<>>
    ELSE <<_copy_tree_from_sklearn_tree(
               (<<>> :> _Node(0, AllFeatures, S.g, BernoulliLearnModel)),
               <<>>, forest[i], h0)>>
         \o tmp_metatree_list(S, h0, forest, i + 1)

\* LearnModel._MTRF: forest holds the skeletons of randomforest.estimators_,
\* h0 is self.h0_g
_MTRF(S, h0, forest, xs, ys) ==
    MTRF_absorb(S,
                _marge_metatrees(tmp_metatree_list(S, h0, forest, 1),
                                 Fill(Frac(1, Len(forest)), Len(forest))),
                xs, ys)

----------------------------------------------------------------------------
(* Prediction.  x stands for self._tmp_x, which calc_pred_dist(x) has set; *)
(* the walks follow the path calc_pred_dist(x) has walked.                 *)

\* variant: the two factors of the mixture are exchanged
RECURSIVE _make_prediction_recursion_squared_swapped(_, _, _)
_make_prediction_recursion_squared_swapped(t, p, x) ==
    IF ~t[p].leaf
    THEN RAdd(RMul(t[p].h_g, sub_make_prediction_squared(t[p].sub_model)),
              RMul(RSub(One, t[p].h_g),
                   _make_prediction_recursion_squared_swapped(
                       t, Append(p, x[t[p].k + 1]), x)))
    ELSE sub_make_prediction_squared(t[p].sub_model)

RECURSIVE _make_prediction_recursion_squared(_, _, _)
_make_prediction_recursion_squared(t, p, x) ==
    IF ~t[p].leaf
    THEN RAdd(RMul(RSub(One, t[p].h_g), sub_make_prediction_squared(t[p].sub_model)),
              RMul(t[p].h_g,
                   _make_prediction_recursion_squared(t, Append(p, x[t[p].k + 1]), x)))
    ELSE sub_make_prediction_squared(t[p].sub_model)

\* mode, mode_prob = pred_dist[mode]
_make_prediction_leaf_01(t, p) ==
    [mode |-> sub_make_prediction_01(t[p].sub_model),
     mode_prob |-> sub_pred_mass(t[p].sub_model, sub_make_prediction_01(t[p].sub_model))]

\* lines 1738-1741: if (1 - node.h_g) * mode_prob1 > node.h_g * mode_prob2
keep_01(g, m1, m2) ==
    IF RLt(RMul(g, m2.mode_prob), RMul(RSub(One, g), m1.mode_prob)) THEN m1 ELSE m2

RECURSIVE _make_prediction_recursion_01(_, _, _)
_make_prediction_recursion_01(t, p, x) ==
    IF ~t[p].leaf
    THEN keep_01(t[p].h_g, _make_prediction_leaf_01(t, p),
                 _make_prediction_recursion_01(t, Append(p, x[t[p].k + 1]), x))
    ELSE _make_prediction_leaf_01(t, p)

\* self.hn_metatree_prob_vec @ tmp_pred_vec, from tree i on
RECURSIVE make_prediction_squared(_, _, _, _)
make_prediction_squared(l, v, x, i) ==
    IF i > Len(l) THEN Zero
    ELSE RAdd(RMul(v[i], _make_prediction_recursion_squared(l[i], <<>>, x)),
              make_prediction_squared(l, v, x, i + 1))

\* variant: the last of several maxima wins
argmax_last(b, i, w, m) ==
    IF b.i = 0 \/ RLe(b.prod, RMul(w, m.mode_prob))
    THEN [i |-> i, prod |-> RMul(w, m.mode_prob), mode |-> m.mode]
    ELSE b

\* np.argmax: b is the best of the trees before i, m the outcome of tree i
argmax_next(b, i, w, m) ==
    IF b.i = 0 \/ RLt(b.prod, RMul(w, m.mode_prob))
    THEN [i |-> i, prod |-> RMul(w, m.mode_prob), mode |-> m.mode]
    ELSE b

\* tmp_mode[np.argmax(self.hn_metatree_prob_vec * tmp_mode_prob_vec)], from
\* tree i on
RECURSIVE make_prediction_01(_, _, _, _, _)
make_prediction_01(l, v, x, i, b) ==
    IF i > Len(l) THEN b.mode
    ELSE make_prediction_01(l, v, x, i + 1,
             argmax_next(b, i, v[i], _make_prediction_recursion_01(l[i], <<>>, x)))

\* variant: a loss that is not supported is treated as '0-1'
make_prediction_fallback(l, vec, x, loss) ==
    IF vec = None \/ Len(Val(vec)) # Len(l) \/ (loss # "squared" /\ l = <<>>)
    THEN [ok |-> FALSE, err |-> "Error", val |-> None]
    ELSE [ok |-> TRUE, err |-> "",
          val |-> Some(IF loss = "squared"
                       THEN make_prediction_squared(l, Val(vec), x, 1)
                       ELSE make_prediction_01(l, Val(vec), x, 1,
                                               [i |-> 0, prod |-> Zero, mode |-> 0]))]

\* LearnModel.make_prediction(loss); the result is [ok, err, val].  A vector
\* that is None or of another length than the list, and an empty list under
\* '0-1', raise in numpy
make_prediction(l, vec, x, loss) ==
    IF loss \notin {"squared", "0-1"}
    THEN [ok |-> FALSE, err |-> "CriteriaError", val |-> None]
    ELSE IF vec = None \/ Len(Val(vec)) # Len(l) \/ (loss = "0-1" /\ l = <<>>)
    THEN [ok |-> FALSE, err |-> "Error", val |-> None]
    ELSE [ok |-> TRUE, err |-> "",
          val |-> Some(IF loss = "squared"
                       THEN make_prediction_squared(l, Val(vec), x, 1)
                       ELSE make_prediction_01(l, Val(vec), x, 1,
                                               [i |-> 0, prod |-> Zero, mode |-> 0]))]

\* _check.nonneg_int_vec(x) and lines 1408-1411 and 1793-1796, for the rows xs
x_format_ok(xs) ==
    \A j \in 1..Len(xs) :
        /\ Len(xs[j]) = c_k
        /\ \A i \in 1..Len(xs[j]) : xs[j][i] >= 0 /\ xs[j][i] < c_num_children

\* lines 1413-1417: ys are the entries of y, one per row of x
y_format_ok(xs, ys) == Len(xs) = Len(ys)

\* variant: the observation is absorbed before the prediction is made
pred_and_update_absorb_first(S, pd, x, ys, loss) ==
    [S |-> _given_MT([S EXCEPT !.list = pd.list], <<x>>, ys).S,
     ok |-> TRUE, err |-> "",
     val |-> make_prediction(_given_MT([S EXCEPT !.list = pd.list], <<x>>, ys).S.list,
                             S.vec, x, loss).val]

\* lines 1798-1800, pd the outcome of calc_pred_dist(x), mp that of
\* make_prediction(loss), u that of _given_MT
pred_and_update_end(S, pd, mp, u) ==
    [S |-> u.S, ok |-> u.ok, err |-> IF u.ok THEN "" ELSE "Error",
     val |-> IF u.ok THEN mp.val ELSE None]

pred_and_update_absorb(S, pd, mp, x, ys) ==
    IF ~mp.ok
    THEN [S |-> [S EXCEPT !.list = pd.list], ok |-> FALSE, err |-> mp.err, val |-> None]
    ELSE IF ~y_format_ok(<<x>>, ys)
    THEN [S |-> [S EXCEPT !.list = pd.list], ok |-> FALSE,
          err |-> "DataFormatError", val |-> None]
    ELSE pred_and_update_end(S, pd, mp,
                             _given_MT([S EXCEPT !.list = pd.list], <<x>>, ys))

pred_and_update_next(S, pd, x, ys, loss) ==
    IF ~pd.ok
    THEN [S |-> [S EXCEPT !.list = pd.list], ok |-> FALSE, err |-> "Error", val |-> None]
    ELSE pred_and_update_absorb(S, pd, make_prediction(pd.list, S.vec, x, loss), x, ys)

\* LearnModel.pred_and_update(x, y, loss) on S = [g, list, vec]; the result is
\* [S, ok, err, val]
pred_and_update(S, x, ys, loss) ==
    IF ~x_format_ok(<<x>>)
    THEN [S |-> S, ok |-> FALSE, err |-> "DataFormatError", val |-> None]
    ELSE pred_and_update_next(S, calc_pred_dist(S.list, x, 1), x, ys, loss)

----------------------------------------------------------------------------
(* LearnModel.estimate_params.  hn stands for self.hn_g.                   *)

\* g ** n
RECURSIVE RPow(_, _)
RPow(g, n) == IF n = 0 THEN One ELSE RMul(g, RPow(g, n - 1))

\* (c_num_children ** n - 1) / (c_num_children - 1)
RECURSIVE full_tree_inner_nodes(_)
full_tree_inner_nodes(n) ==
    IF n <= 0 THEN 0 ELSE 1 + c_num_children * full_tree_inner_nodes(n - 1)

\* the nodes of t at the paths P
RECURSIVE Restrict(_, _)
Restrict(t, P) ==
    IF P = {} THEN <<>>
    ELSE LET q == CHOOSE q \in P : TRUE
         IN  (q :> t[q]) @@ Restrict(t, P \ {q})

\* node.children[i] = child: the subtree below the slot is replaced
SetChild(t, c, child) ==
    (c :> child) @@ Restrict(t, {q \in DOMAIN t : ~IsPrefix(c, q)})

RECURSIVE _map_recursion_add_nodes(_, _, _)
RECURSIVE map_add_children(_, _, _, _)

\* the loop over range(c_num_children) of _map_recursion_add_nodes, from i on
map_add_children(t, p, hn, i) ==
    IF i = c_num_children THEN t
    ELSE map_add_children(
             _map_recursion_add_nodes(
                 SetChild(t, Append(p, i),
                          _Node(t[p].depth + 1, Remove(t[p].k_candidates, t[p].k),
                                hn, BernoulliLearnModel)),
                 Append(p, i), hn),
             p, hn, i + 1)

\* LearnModel._map_recursion_add_nodes; a node with no candidate left above
\* the two depths does not occur (k_candidates[0] would raise)
_map_recursion_add_nodes(t, p, hn) ==
    IF t[p].depth = c_d_max \/ t[p].depth = c_k \/ t[p].k_candidates = <<>>
    THEN [t EXCEPT ![p].h_g = Zero, ![p].leaf = TRUE, ![p].map_leaf = TRUE]
    ELSE map_add_children([t EXCEPT ![p].k = t[p].k_candidates[1]], p, hn, 0)

RECURSIVE _map_recursion(_, _, _)
RECURSIVE map_children(_, _, _, _)

\* variant: a tie declares a leaf
map_inner_leaf_on_ties(r, p) ==
    IF ~r.ok THEN [tree |-> r.tree, val |-> Zero, ok |-> FALSE]
    ELSE IF RLe(RMul(r.tree[p].h_g, r.prod), RSub(One, r.tree[p].h_g))
    THEN [tree |-> [r.tree EXCEPT ![p].map_leaf = TRUE],
          val |-> RSub(One, r.tree[p].h_g), ok |-> TRUE]
    ELSE [tree |-> [r.tree EXCEPT ![p].map_leaf = FALSE],
          val |-> RMul(r.tree[p].h_g, r.prod), ok |-> TRUE]

\* lines 1462-1467, r the outcome [tree, prod, ok] of the loop over the children
map_inner(r, p) ==
    IF ~r.ok THEN [tree |-> r.tree, val |-> Zero, ok |-> FALSE]
    ELSE IF RLt(RMul(r.tree[p].h_g, r.prod), RSub(One, r.tree[p].h_g))
    THEN [tree |-> [r.tree EXCEPT ![p].map_leaf = TRUE],
          val |-> RSub(One, r.tree[p].h_g), ok |-> TRUE]
    ELSE [tree |-> [r.tree EXCEPT ![p].map_leaf = FALSE],
          val |-> RMul(r.tree[p].h_g, r.prod), ok |-> TRUE]

\* tmp_vec[i] = self._map_recursion(node.children[i]), u the outcome for child i
map_children_next(r, u, p, hn, i) ==
    map_children([tree |-> u.tree, prod |-> RMul(r.prod, u.val), ok |-> u.ok],
                 p, hn, i + 1)

\* the loop over the children from i on; a child that is None raises
map_children(r, p, hn, i) ==
    IF i = c_num_children \/ ~r.ok THEN r
    ELSE IF Append(p, i) \notin DOMAIN r.tree THEN [r EXCEPT !.ok = FALSE]
    ELSE map_children_next(r, _map_recursion(r.tree, Append(p, i), hn), p, hn, i)

\* LearnModel._map_recursion; the result is [tree, val, ok]
_map_recursion(t, p, hn) ==
    IF t[p].leaf
    THEN IF t[p].depth = c_d_max \/ t[p].depth = c_k
         THEN [tree |-> [t EXCEPT ![p].map_leaf = TRUE], val |-> One, ok |-> TRUE]
         ELSE IF RLt(RPow(hn, full_tree_inner_nodes(c_d_max - t[p].depth)),
                     RSub(One, hn))
         THEN [tree |-> [t EXCEPT ![p].map_leaf = TRUE], val |-> RSub(One, hn),
               ok |-> TRUE]
         ELSE [tree |-> _map_recursion_add_nodes(t, p, hn),
               val |-> RPow(hn, full_tree_inner_nodes(c_d_max - t[p].depth)),
               ok |-> TRUE]
    ELSE map_inner(map_children([tree |-> t, prod |-> One, ok |-> TRUE], p, hn, 0), p)

RECURSIVE _copy_map_tree_recursion(_, _, _)
RECURSIVE copy_map_children(_, _, _, _)

\* the loop over range(c_num_children) of _copy_map_tree_recursion, from i on
copy_map_children(r, p, original, i) ==
    IF i = c_num_children \/ ~r.ok THEN r
    ELSE IF Append(p, i) \notin DOMAIN original THEN [r EXCEPT !.ok = FALSE]
    ELSE copy_map_children(
             _copy_map_tree_recursion(
                 (Append(p, i) :> _Node(r.tree[p].depth + 1,
                                        Remove(r.tree[p].k_candidates, r.tree[p].k),
                                        Half, None))
                 @@ r.tree,
                 Append(p, i), original),
             p, original, i + 1)

\* LearnModel._copy_map_tree_recursion into the copy t; the result is
\* [tree, ok], ok FALSE when child_k_candidates.remove raises or a child of
\* the original is None
_copy_map_tree_recursion(t, p, original) ==
    IF ~original[p].map_leaf
    THEN IF ~InSeq(t[p].k_candidates, original[p].k)
         THEN [tree |-> [t EXCEPT ![p].h_g = original[p].h_g, ![p].k = original[p].k],
               ok |-> FALSE]
         ELSE copy_map_children(
                  [tree |-> [t EXCEPT ![p].h_g = original[p].h_g,
                                      ![p].k = original[p].k],
                   ok |-> TRUE],
                  p, original, 0)
    ELSE [tree |-> [t EXCEPT ![p].h_g = original[p].h_g,
                             ![p].sub_model = original[p].sub_model,
                             ![p].leaf = TRUE],
          ok |-> TRUE]

RECURSIVE estimate_params_trees(_, _, _, _)

\* variant: a candidate that equals the best so far replaces it
estimate_params_trees_next_last(b, v, hn, i, u) ==
    estimate_params_trees(
        [list |-> [b.list EXCEPT ![i] = u.tree],
         map_index |-> IF u.ok /\ RLe(b.map_prob, RMul(v[i], u.val))
                       THEN i ELSE b.map_index,
         map_prob |-> IF u.ok /\ RLe(b.map_prob, RMul(v[i], u.val))
                      THEN RMul(v[i], u.val) ELSE b.map_prob,
         ok |-> u.ok],
        v, hn, i + 1)

\* lines 1523-1526: b is [list, map_index, map_prob, ok], u the outcome of
\* _map_recursion for tree i
estimate_params_trees_next(b, v, hn, i, u) ==
    estimate_params_trees(
        [list |-> [b.list EXCEPT ![i] = u.tree],
         map_index |-> IF u.ok /\ RLt(b.map_prob, RMul(v[i], u.val))
                       THEN i ELSE b.map_index,
         map_prob |-> IF u.ok /\ RLt(b.map_prob, RMul(v[i], u.val))
                      THEN RMul(v[i], u.val) ELSE b.map_prob,
         ok |-> u.ok],
        v, hn, i + 1)

\* the loop over self.hn_metatree_list from tree i on; an index outside the
\* weight vector raises before tree i is walked
estimate_params_trees(b, v, hn, i) ==
    IF i > Len(b.list) \/ ~b.ok THEN b
    ELSE IF i > Len(v) THEN [b EXCEPT !.ok = FALSE]
    ELSE estimate_params_trees_next(b, v, hn, i, _map_recursion(b.list[i], <<>>, hn))

\* lines 1527-1535, b the outcome of the loop and c that of the copy
estimate_params_end(S, b, c) ==
    [S |-> [S EXCEPT !.list = b.list], ok |-> c.ok,
     err |-> IF c.ok THEN "" ELSE "Error",
     val |-> IF c.ok THEN Some([root |-> c.tree, map_index |-> b.map_index,
                                map_prob |-> b.map_prob])
             ELSE None]

estimate_params_copy(S, b) ==
    IF ~b.ok \/ b.list = <<>>
    THEN [S |-> [S EXCEPT !.list = b.list], ok |-> FALSE, err |-> "Error", val |-> None]
    ELSE estimate_params_end(S, b,
             _copy_map_tree_recursion((<<>> :> _Node(0, AllFeatures, Half, None)),
                                      <<>>, b.list[b.map_index]))

\* LearnModel.estimate_params(loss) on S = [g, list, vec]; the result is
\* [S, ok, err, val].  A weight vector that is None raises at the first tree
estimate_params(S, loss) ==
    IF loss # "0-1"
    THEN [S |-> S, ok |-> FALSE, err |-> "CriteriaError", val |-> None]
    ELSE IF S.vec = None /\ S.list # <<>>
    THEN [S |-> S, ok |-> FALSE, err |-> "Error", val |-> None]
    ELSE estimate_params_copy(S,
             estimate_params_trees(
                 [list |-> S.list, map_index |-> 1, map_prob |-> Zero, ok |-> TRUE],
                 IF S.vec = None THEN <<>> ELSE Val(S.vec), S.g, 1))

----------------------------------------------------------------------------
(* GenModel.gen_params and set_params on the tree t = self.root.  h is the *)
(* tree of h_metatree_list that rng.choice has drawn (NoTree when the list *)
(* is empty) and hp the path of h_node in it, h_node being None iff hp is  *)
(* no path of h; hg stands for self.h_g.  The outcomes of gen_params are   *)
(* the set of the [tree, ok] the draws of rng can give: rng.random() lies  *)
(* in [0, 1), and rng.choice returns any candidate (h_k_prob_vec is        *)
(* positive everywhere).                                                   *)

NoTree == <<>>

\* the values rng.choice(node.k_candidates) may return, or the retained k
gen_features(node, feature_fix) ==
    IF ~feature_fix \/ node.k = NoneK
    THEN {node.k_candidates[j] : j \in 1..Len(node.k_candidates)}
    ELSE {node.k}

\* lines 196-203: the child i of the node at p, created if it is None, with
\* the candidates of its parent less the parent's feature
gen_child(t, p, i, hg) ==
    IF Append(p, i) \in DOMAIN t
    THEN [t EXCEPT ![Append(p, i)].k_candidates = Remove(t[p].k_candidates, t[p].k)]
    ELSE (Append(p, i) :> _Node(t[p].depth + 1, Remove(t[p].k_candidates, t[p].k),
                                hg, BernoulliGenModel))
         @@ t

\* lines 179-184 and 206-214: the stop weight and the leaf model of the node
gen_node(t, p, h, hp, hg) ==
    [t EXCEPT ![p].h_g = IF t[p].depth = c_d_max THEN Zero
                         ELSE IF hp \in DOMAIN h THEN h[hp].h_g ELSE hg,
              ![p].sub_model = BernoulliGenModel]

\* the stop probability the draw of rng.random() is compared with
gen_stop(h, hp, hg) == IF hp \in DOMAIN h THEN h[hp].h_g ELSE hg

RECURSIVE _gen_params_recursion(_, _, _, _, _, _)
RECURSIVE gen_children(_, _, _, _, _, _, _)

\* the loop over range(c_num_children) from i on, R the outcomes so far
gen_children(R, p, h, hp, feature_fix, hg, i) ==
    IF i = c_num_children THEN R
    ELSE gen_children(
             UNION {IF ~r.ok THEN {r}
                    ELSE _gen_params_recursion(gen_child(r.tree, p, i, hg),
                                               Append(p, i), h, Append(hp, i),
                                               feature_fix, hg) : r \in R},
             p, h, hp, feature_fix, hg, i + 1)

\* the inner-node branch with the feature k: child_k_candidates.remove(k)
\* raises ValueError when k is no candidate
gen_inner(t, p, h, hp, feature_fix, hg, k) ==
    IF ~InSeq(t[p].k_candidates, k)
    THEN {[tree |-> [t EXCEPT ![p].k = k], ok |-> FALSE]}
    ELSE gen_children({[tree |-> [t EXCEPT ![p].k = k, ![p].leaf = FALSE],
                        ok |-> TRUE]},
                      p, h, hp, feature_fix, hg, 0)

\* the branches of lines 185-204 and 215-234 on the node t[p], whose stop
\* weight and leaf model are set
gen_branches(t, p, h, hp, feature_fix, hg) ==
    (IF t[p].depth = c_d_max \/ t[p].depth = c_k \/ RLt(gen_stop(h, hp, hg), One)
     THEN {[tree |-> [t EXCEPT ![p].leaf = TRUE], ok |-> TRUE]}
     ELSE {})
    \cup
    (IF t[p].depth = c_d_max \/ t[p].depth = c_k THEN {}
     ELSE IF gen_features(t[p], feature_fix) = {}
     THEN {[tree |-> t, ok |-> FALSE]}
     ELSE UNION {gen_inner(t, p, h, hp, feature_fix, hg, k) :
                    k \in gen_features(t[p], feature_fix)})

\* GenModel._gen_params_recursion
_gen_params_recursion(t, p, h, hp, feature_fix, hg) ==
    gen_branches(gen_node(t, p, h, hp, hg), p, h, hp, feature_fix, hg)

RECURSIVE _gen_params_recursion_tree_fix(_, _, _, _, _, _)
RECURSIVE gen_children_tree_fix(_, _, _, _, _, _, _)

\* lines 263-266 and 287-290: only the children that exist are walked, and
\* each with the h_node of its parent
gen_children_tree_fix(R, p, h, hp, feature_fix, hg, i) ==
    IF i = c_num_children THEN R
    ELSE gen_children_tree_fix(
             UNION {IF ~r.ok \/ Append(p, i) \notin DOMAIN r.tree THEN {r}
                    ELSE _gen_params_recursion_tree_fix(
                             gen_child(r.tree, p, i, hg), Append(p, i), h, hp,
                             feature_fix, hg) : r \in R},
             p, h, hp, feature_fix, hg, i + 1)

gen_inner_tree_fix(t, p, h, hp, feature_fix, hg, k) ==
    IF ~InSeq(t[p].k_candidates, k)
    THEN {[tree |-> [t EXCEPT ![p].k = k], ok |-> FALSE]}
    ELSE gen_children_tree_fix({[tree |-> [t EXCEPT ![p].k = k, ![p].leaf = FALSE],
                                 ok |-> TRUE]},
                               p, h, hp, feature_fix, hg, 0)

gen_branches_tree_fix(t, p, h, hp, feature_fix, hg) ==
    IF t[p].leaf THEN {[tree |-> t, ok |-> TRUE]}
    ELSE IF gen_features(t[p], feature_fix) = {}
    THEN {[tree |-> t, ok |-> FALSE]}
    ELSE UNION {gen_inner_tree_fix(t, p, h, hp, feature_fix, hg, k) :
                   k \in gen_features(t[p], feature_fix)}

\* GenModel._gen_params_recursion_tree_fix
_gen_params_recursion_tree_fix(t, p, h, hp, feature_fix, hg) ==
    gen_branches_tree_fix(gen_node(t, p, h, hp, hg), p, h, hp, feature_fix, hg)

\* lines 597-605, h the drawn tmp_root or NoTree
gen_params_with(t, h, feature_fix, tree_fix, hg) ==
    IF tree_fix THEN _gen_params_recursion_tree_fix(t, <<>>, h, <<>>, feature_fix, hg)
    ELSE _gen_params_recursion(t, <<>>, h, <<>>, feature_fix, hg)

\* GenModel.gen_params(feature_fix, tree_fix) on the root t, S = [g, list,
\* vec] the h fields; rng.choice raises when list and p differ in length and
\* returns a tree whose weight is not 0
gen_params(t, S, feature_fix, tree_fix) ==
    IF S.list = <<>> THEN gen_params_with(t, NoTree, feature_fix, tree_fix, S.g)
    ELSE IF S.vec # None /\ Len(Val(S.vec)) # Len(S.list)
    THEN {[tree |-> t, ok |-> FALSE]}
    ELSE UNION {gen_params_with(t, S.list[i], feature_fix, tree_fix, S.g) :
                   i \in {i \in 1..Len(S.list) : S.vec = None \/ Val(S.vec)[i] # Zero}}

RECURSIVE _set_params_recursion(_, _, _, _)
RECURSIVE set_params_children(_, _, _, _, _)

\* lines 322-330: every child is a new node
set_params_children(r, p, original_tree, hg, i) ==
    IF i = c_num_children \/ ~r.ok THEN r
    ELSE set_params_children(
             _set_params_recursion(
                 SetChild(r.tree, Append(p, i),
                          _Node(r.tree[p].depth + 1,
                                Remove(r.tree[p].k_candidates, r.tree[p].k),
                                hg, BernoulliGenModel)),
                 Append(p, i), original_tree, hg),
             p, original_tree, hg, i + 1)

\* GenModel._set_params_recursion; the result is [tree, ok], ok FALSE when
\* original_tree_node is None or child_k_candidates.remove raises
_set_params_recursion(t, p, original_tree, hg) ==
    IF p \notin DOMAIN original_tree THEN [tree |-> t, ok |-> FALSE]
    ELSE IF original_tree[p].leaf
    THEN [tree |-> [t EXCEPT ![p].h_g = IF t[p].depth = c_d_max THEN Zero ELSE @,
                             ![p].leaf = TRUE],
          ok |-> TRUE]
    ELSE IF ~InSeq(t[p].k_candidates, original_tree[p].k)
    THEN [tree |-> [t EXCEPT ![p].k = original_tree[p].k], ok |-> FALSE]
    ELSE set_params_children(
             [tree |-> [t EXCEPT ![p].k = original_tree[p].k, ![p].leaf = FALSE],
              ok |-> TRUE],
             p, original_tree, hg, 0)

\* GenModel.set_params(root) with a root that is a _Node
set_params(original_tree, hg) ==
    _set_params_recursion((<<>> :> _Node(0, AllFeatures, hg, BernoulliGenModel)),
                          <<>>, original_tree, hg)

----------------------------------------------------------------------------
(* The arguments the callers pass *)

\* observations: x of length c_k with entries below c_num_children, y in {0, 1}
Rows == [1..c_k -> 0..(c_num_children - 1)]

SingleRows == {[xs |-> <<x>>, ys |-> <<y>>] : x \in Rows, y \in {0, 1}}

\* reference topologies: a leaf, or a chain of splits down the first child
RefSkeletons ==
    {s \in Skeletons : \A p \in DOMAIN s : \A i \in 1..Len(p) : i = Len(p) \/ p[i] = 0}

\* the two smallest topologies: a leaf, and a split on feature 0 over two leaves
SmallSkeletons == {s \in RefSkeletons : \A p \in DOMAIN s : Len(p) <= 1 /\ s[p] <= 0}

\* stop weights of reference trees: the ends of [0, 1] and two values inside
RefWeights == {Zero, <<1, 4>>, Half, One}

\* candidate lists of references sharing their stop weight: one tree, or a
\* tree followed by a small one
RefLists(skels, gs) ==
    {<<RefTree(s, g)>> : s \in skels, g \in gs}
    \cup {<<RefTree(s, g), RefTree(s2, g)>> : s \in skels, s2 \in SmallSkeletons, g \in gs}

Uniform(n) == Fill(Frac(1, n), n)
Skewed(n) == SubSeq(<<<<1, 4>>, <<3, 4>>>> \o Fill(Zero, n), 1, n)
AllOf(w, n) == Fill(w, n)

NoArgs == [g |-> None, sub |-> FALSE, list |-> None, vec |-> None]

\* the rows a lifecycle call or a forest fit is given
FitRows == {b \in SingleRows : \A i \in 1..c_k : b.xs[1][i] = b.ys[1]}

\* candidate lists of copies of one small reference
SameLists ==
    {Fill(RefTree(s, Half), k) : s \in SmallSkeletons, k \in 1..MaxTrees}

\* calls that pass a candidate list: alone, or with a weight vector that is too
\* long
ListArgs ==
    {[NoArgs EXCEPT !.list = Some(l)] : l \in {<<>>} \cup SameLists}
    \cup {[NoArgs EXCEPT !.list = Some(l), !.vec = Some(Uniform(Len(l) + 1))] :
            l \in SameLists}

\* calls that pass a weight vector for a list of n trees: uniform, skewed, one
\* whose sum is not 1
VecArgs(n) ==
    {[NoArgs EXCEPT !.vec = Some(v)] :
        v \in (IF n >= 1 THEN {Uniform(n), AllOf(<<3, 4>>, n)} ELSE {}) \cup
              (IF n >= 2 THEN {Skewed(n)} ELSE {})}

\* calls that pass a stop probability (3/2 is no probability) or leaf-model
\* hyperparameters
ScalarArgs ==
    {[NoArgs EXCEPT !.g = Some(v)] : v \in {<<1, 4>>, <<3, 2>>}}
    \cup {[NoArgs EXCEPT !.sub = TRUE]}

SetArgs(cur_list) == ListArgs \cup VecArgs(Len(cur_list)) \cup ScalarArgs

\* the arguments of a constructor that is given a candidate list: one tree, or
\* several with skewed weights
InitArgs ==
    {[g |-> Some(Half), sub |-> TRUE, list |-> Some(l),
      vec |-> IF Len(l) = 1 THEN None ELSE Some(Skewed(Len(l)))] :
        l \in RefLists(RefSkeletons, RefWeights)}

DefaultArgs == [g |-> Some(Half), sub |-> TRUE, list |-> Some(<<>>), vec |-> None]

\* an x of the wrong length, with an entry that is no child index, with a
\* negative entry
BadRows == {<<0>>, <<0, c_num_children>>, <<-1, 0>>}

\* batches update_posterior rejects: a bad row first or second, or a y with
\* more entries than x has rows
BadBatches ==
    {[xs |-> <<x>>, ys |-> <<1>>] : x \in BadRows}
    \cup {[xs |-> <<<<0, 0>>, x>>, ys |-> <<0, 1>>] : x \in BadRows}
    \cup {[xs |-> <<<<0, 1>>>>, ys |-> <<0, 1>>]}

\* what pred_and_update is given as y: a scalar, or a vector of two entries
PredYs == {<<0>>, <<1>>, <<0, 1>>}

Losses == {"squared", "0-1", "KL"}

\* calls that pass one reference tree as the candidate list
ShapeArgs ==
    {[NoArgs EXCEPT !.list = Some(<<RefTree(s, Half)>>)] : s \in RefSkeletons}

\* a reference of three splits down the first child, the third on the
\* feature of the first
DeepSkeleton ==
    (<<>> :> 0) @@ (<<0>> :> 1) @@ (<<1>> :> NoneK) @@ (<<0, 0>> :> 0)
    @@ (<<0, 1>> :> NoneK) @@ (<<0, 0, 0>> :> NoneK) @@ (<<0, 0, 1>> :> NoneK)

\* a reference that splits its first child on the feature of its root
RepeatSkeleton ==
    (<<>> :> 1) @@ (<<0>> :> 1) @@ (<<1>> :> NoneK)
    @@ (<<0, 0>> :> NoneK) @@ (<<0, 1>> :> NoneK)

\* a reference that splits on a feature index outside 0..c_k-1
OutOfRangeSkeleton == (<<>> :> c_k) @@ (<<0>> :> NoneK) @@ (<<1>> :> NoneK)

\* calls that pass one reference the feature budget does not allow
BadShapeArgs ==
    {[NoArgs EXCEPT !.list = Some(<<RefTree(s, Half)>>)] :
        s \in {RepeatSkeleton, OutOfRangeSkeleton}}

\* the reference trees set_params is given
ParamRefs ==
    {RefTree(s, Half) :
        s \in RefSkeletons \cup {DeepSkeleton, RepeatSkeleton, OutOfRangeSkeleton}}

\* the estimators a fitted random forest may hold
Forests(skels, n) == UNION {[1..k -> skels] : k \in 1..n}

----------------------------------------------------------------------------
(* The state machine *)

Sn == [g |-> hn_g, list |-> hn_metatree_list, vec |-> hn_metatree_prob_vec]
S0 == [g |-> h0_g, list |-> h0_metatree_list, vec |-> h0_metatree_prob_vec]
Sh == [g |-> h_g, list |-> h_metatree_list, vec |-> h_metatree_prob_vec]

Fresh == [g |-> Half, list |-> <<>>, vec |-> None]

Call(op, ok, arg, aux) == [op |-> op, ok |-> ok, arg |-> arg, aux |-> aux]

\* what the record of a set_* call keeps of its arguments: the list's length
\* (-1 for None) in place of the list
Brief(a) ==
    [g |-> a.g, sub |-> a.sub, vec |-> a.vec,
     n |-> IF a.list = None THEN -1 ELSE Len(Val(a.list))]

SetLearn(s0, sn) ==
    /\ h0_g' = s0.g
    /\ h0_metatree_list' = s0.list
    /\ h0_metatree_prob_vec' = s0.vec
    /\ hn_g' = sn.g
    /\ hn_metatree_list' = sn.list
    /\ hn_metatree_prob_vec' = sn.vec

SetGen(sh) ==
    /\ h_g' = sh.g
    /\ h_metatree_list' = sh.list
    /\ h_metatree_prob_vec' = sh.vec
    /\ root' = root

\* a LearnModel has no root
NoRoot == <<>>

\* lines 157-165: self.root = _Node(0, ..., list(range(c_k)), self.h_g,
\* sub_model=..., leaf=True); set_params(None) leaves it
ConstructedRoot(g) ==
    (<<>> :> [_Node(0, AllFeatures, g, BernoulliGenModel) EXCEPT !.leaf = TRUE])

\* the fields after __init__: r is the outcome of set_h0_params, h that of
\* set_h_params
ConstructedFields(r, h) ==
    /\ r.ok /\ h.ok
    /\ h0_g = r.S0.g
    /\ h0_metatree_list = r.S0.list
    /\ h0_metatree_prob_vec = r.S0.vec
    /\ hn_g = r.Sn.g
    /\ hn_metatree_list = r.Sn.list
    /\ hn_metatree_prob_vec = r.Sn.vec
    /\ h_g = h.S.g
    /\ h_metatree_list = h.S.list
    /\ h_metatree_prob_vec = h.S.vec
    /\ root = IF model_class = "GenModel" THEN ConstructedRoot(h.S.g) ELSE NoRoot

\* LearnModel.__init__ with the arguments a (its call of set_h0_params returned)
\* or GenModel.__init__ (its call of set_h_params returned)
Constructed(class, a) ==
    /\ model_class = class
    /\ ops = 0
    /\ last = Call("__init__", TRUE, Brief(a), <<>>)
    /\ ConstructedFields(IF class = "LearnModel"
                          THEN set_h0_params(Fresh, Fresh, a)
                          ELSE [S0 |-> Fresh, Sn |-> Fresh, ok |-> TRUE],
                          IF class = "GenModel"
                          THEN set_h_params(Fresh, a)
                          ELSE [S |-> Fresh, ok |-> TRUE])

\* LearnModel(c_k, c_d_max, c_num_children) or GenModel(...), defaults otherwise
Init == \E class \in {"LearnModel", "GenModel"} : Constructed(class, DefaultArgs)

\* the end of a call on the hn fields, r its outcome [S, ok]: the fields hold
\* what the call assigned before it returned or raised
Ended_hn(op, r, arg) ==
    /\ SetLearn(S0, r.S)
    /\ last' = Call(op, r.ok, arg, <<>>)

\* the end of set_h0_params, r its outcome [S0, Sn, ok]
Ended_h0(r, arg) ==
    /\ SetLearn(r.S0, r.Sn)
    /\ last' = Call("set_h0_params", r.ok, arg, <<>>)

\* the end of the MTRF branch of update_posterior, r the outcome of _MTRF: the
\* two fields are assigned only when _MTRF returns
Ended_MTRF(r, arg) ==
    /\ SetLearn(S0, IF r.ok THEN r.S ELSE Sn)
    /\ last' = Call("MTRF", r.ok, arg, [merged_vec |-> r.merged_vec])

\* the end of GenModel.set_h_params, r its outcome [S, ok]
Ended_h(r, arg) ==
    /\ SetGen(r.S)
    /\ last' = Call("set_h_params", r.ok, arg, <<>>)

Call_set_hn_params(a) ==
    /\ model_class = "LearnModel"
    /\ ops < MaxOps
    /\ Ended_hn("set_hn_params", set_hn_params(Sn, a), Brief(a))
    /\ ops' = ops + 1
    /\ UNCHANGED <<model_class, gen_vars>>

Call_set_h0_params(a) ==
    /\ model_class = "LearnModel"
    /\ ops < MaxOps
    /\ Ended_h0(set_h0_params(S0, Sn, a), Brief(a))
    /\ ops' = ops + 1
    /\ UNCHANGED <<model_class, gen_vars>>

\* update_posterior(x, y, alg_type='given_MT') with valid x and y
Call_update_posterior_given_MT(b) ==
    /\ model_class = "LearnModel"
    /\ ops < MaxOps
    /\ Ended_hn("given_MT", _given_MT(Sn, b.xs, b.ys), b)
    /\ ops' = ops + 1
    /\ UNCHANGED <<model_class, gen_vars>>

\* update_posterior(x, y, alg_type='MTRF', n_estimators=Len(forest)) with valid
\* x and y, the fitted forest holding the estimators forest
Call_update_posterior_MTRF(forest, b) ==
    /\ model_class = "LearnModel"
    /\ Ended_MTRF(_MTRF(Sn, h0_g, forest, b.xs, b.ys),
                  [forest |-> forest, xs |-> b.xs, ys |-> b.ys])
    /\ ops' = ops + 1
    /\ UNCHANGED <<model_class, gen_vars>>

Call_set_h_params(a) ==
    /\ model_class = "GenModel"
    /\ ops < MaxOps
    /\ Ended_h(set_h_params(Sh, a), Brief(a))
    /\ ops' = ops + 1
    /\ UNCHANGED <<model_class, learn_vars>>

\* the end of a call that returns a value or raises, r its outcome
\* [S, ok, err, val]
Ended_val(op, r, arg) ==
    /\ SetLearn(S0, r.S)
    /\ last' = Call(op, r.ok, arg, [err |-> r.err, val |-> r.val])

Call_pred_and_update(x, ys, loss) ==
    /\ model_class = "LearnModel"
    /\ ops < MaxOps
    /\ Ended_val("pred_and_update", pred_and_update(Sn, x, ys, loss),
                 [x |-> x, ys |-> ys, loss |-> loss])
    /\ ops' = ops + 1
    /\ UNCHANGED <<model_class, gen_vars>>

\* the outcome of calc_pred_dist(x) followed by make_prediction(loss), pd the
\* outcome of calc_pred_dist
calc_pred_dist_make_prediction(S, x, loss, pd) ==
    IF ~pd.ok
    THEN [S |-> [S EXCEPT !.list = pd.list], ok |-> FALSE, err |-> "Error", val |-> None]
    ELSE [S |-> [S EXCEPT !.list = pd.list],
          ok |-> make_prediction(pd.list, S.vec, x, loss).ok,
          err |-> make_prediction(pd.list, S.vec, x, loss).err,
          val |-> make_prediction(pd.list, S.vec, x, loss).val]

\* calc_pred_dist(x) and then make_prediction(loss)
Call_calc_pred_dist_make_prediction(x, loss) ==
    /\ model_class = "LearnModel"
    /\ ops < MaxOps
    /\ Ended_val("make_prediction",
                 IF ~x_format_ok(<<x>>)
                 THEN [S |-> Sn, ok |-> FALSE, err |-> "DataFormatError", val |-> None]
                 ELSE calc_pred_dist_make_prediction(
                          Sn, x, loss, calc_pred_dist(hn_metatree_list, x, 1)),
                 [x |-> x, loss |-> loss])
    /\ ops' = ops + 1
    /\ UNCHANGED <<model_class, gen_vars>>

Call_estimate_params(loss) ==
    /\ model_class = "LearnModel"
    /\ ops < MaxOps
    /\ Ended_val("estimate_params", estimate_params(Sn, loss), [loss |-> loss])
    /\ ops' = ops + 1
    /\ UNCHANGED <<model_class, gen_vars>>

\* update_posterior(x, y, alg_type) with an x or y the checks of lines
\* 1407-1417 reject
Call_update_posterior_rejected(b, alg_type) ==
    /\ model_class = "LearnModel"
    /\ ops < MaxOps
    /\ ~(x_format_ok(b.xs) /\ y_format_ok(b.xs, b.ys))
    /\ Ended_val("update_posterior",
                 [S |-> Sn, ok |-> FALSE, err |-> "DataFormatError", val |-> None],
                 [xs |-> b.xs, ys |-> b.ys, alg_type |-> alg_type])
    /\ ops' = ops + 1
    /\ UNCHANGED <<model_class, gen_vars>>

\* the end of a call on self.root, r its outcome [tree, ok]
Ended_root(op, r, arg) ==
    /\ root' = r.tree
    /\ last' = Call(op, r.ok, arg, <<>>)

Call_gen_params(feature_fix, tree_fix) ==
    /\ model_class = "GenModel"
    /\ ops < MaxDraws
    /\ \E r \in gen_params(root, Sh, feature_fix, tree_fix) :
           Ended_root("gen_params", r,
                      [feature_fix |-> feature_fix, tree_fix |-> tree_fix])
    /\ ops' = ops + 1
    /\ UNCHANGED <<model_class, learn_vars, h_g, h_metatree_list, h_metatree_prob_vec>>

Call_set_params(original_tree) ==
    /\ model_class = "GenModel"
    /\ ops < MaxOps
    /\ Ended_root("set_params", set_params(original_tree, h_g),
                  [root |-> original_tree])
    /\ ops' = ops + 1
    /\ UNCHANGED <<model_class, learn_vars, h_g, h_metatree_list, h_metatree_prob_vec>>

\* one pass of the inner loop of _given_MT (line 1388) for candidate i, the
\* candidates being walked in any interleaving; last.aux holds the number of
\* rows each candidate has absorbed and the running scores
Step_absorb(i, r) ==
    /\ last.op = "absorbing" /\ last.ok
    /\ last.aux.done[i] < Len(last.arg.xs)
    /\ hn_metatree_list' = r.list
    /\ last' = [last EXCEPT !.ok = r.ok, !.aux.w = r.w,
                            !.aux.done[i] = last.aux.done[i] + 1]
    /\ UNCHANGED <<model_class, ops, gen_vars, h0_g, h0_metatree_list,
                   h0_metatree_prob_vec, hn_g, hn_metatree_prob_vec>>

\* lines 1389-1391: the join, once every candidate has absorbed every row
Step_join ==
    /\ last.op = "absorbing" /\ last.ok
    /\ \A i \in 1..Len(hn_metatree_list) : last.aux.done[i] = Len(last.arg.xs)
    /\ hn_metatree_prob_vec' = Some(normalise(last.aux.w))
    /\ last' = [last EXCEPT !.op = "joined"]
    /\ ops' = ops + 1
    /\ UNCHANGED <<model_class, gen_vars, h0_g, h0_metatree_list,
                   h0_metatree_prob_vec, hn_g, hn_metatree_list>>

Next ==
    \/ \E a \in SetArgs(hn_metatree_list) : Call_set_hn_params(a)
    \/ \E a \in ListArgs : Call_set_h0_params(a)
    \/ \E b \in FitRows : Call_update_posterior_given_MT(b)
    \/ \E f \in Forests(SmallSkeletons, MaxTrees), b \in FitRows :
           ops < MaxOps /\ Call_update_posterior_MTRF(f, b)
    \/ \E a \in SetArgs(h_metatree_list) : Call_set_h_params(a)

Spec == Init /\ [][Next]_vars

\* A LearnModel constructed with a candidate list, then fed observations
InitAbsorb == \E a \in InitArgs : Constructed("LearnModel", a)

NextAbsorb == \E b \in SingleRows : Call_update_posterior_given_MT(b)

SpecAbsorb == InitAbsorb /\ [][NextAbsorb]_vars

\* batches of two observations with opposite x and opposite y
OppositeRows ==
    {[xs |-> <<x, [i \in 1..c_k |-> 1 - x[i]]>>, ys |-> <<y, 1 - y>>] :
        x \in {x \in Rows : x[1] # x[2]}, y \in {0, 1}}

\* the arguments of a constructor that is given a candidate list, with skewed
\* weights or with none (the weights are then uniform)
PredictArgs == InitArgs \cup {[a EXCEPT !.vec = None] : a \in InitArgs}

InitPredict == \E a \in PredictArgs : Constructed("LearnModel", a)

\* A LearnModel constructed with a candidate list that is asked for a
\* prediction or an estimate, at once or after one update_posterior
NextPredict ==
    /\ last.op \in {"__init__", "given_MT"}
    /\ \/ \E b \in SingleRows \cup OppositeRows :
              ops = 0 /\ Call_update_posterior_given_MT(b)
       \/ \E x \in Rows \cup BadRows, ys \in PredYs, loss \in Losses :
              Call_pred_and_update(x, ys, loss)
       \/ \E x \in Rows \cup BadRows, loss \in Losses :
              Call_calc_pred_dist_make_prediction(x, loss)
       \/ \E loss \in Losses : Call_estimate_params(loss)
       \/ \E b \in BadBatches, alg_type \in {"MTRF", "given_MT"} :
              Call_update_posterior_rejected(b, alg_type)

SpecPredict == InitPredict /\ [][NextPredict]_vars

\* A default model whose trees are built, rebuilt, drawn, fed and collapsed
NextShape ==
    \/ \E a \in ShapeArgs \cup BadShapeArgs : Call_set_hn_params(a)
    \/ \E a \in ShapeArgs \cup BadShapeArgs : Call_set_h0_params(a)
    \/ \E b \in FitRows : Call_update_posterior_given_MT(b)
    \/ \E f \in Forests(Skeletons, 1), b \in FitRows :
           ops < MaxOps /\ Call_update_posterior_MTRF(f, b)
    \/ Call_estimate_params("0-1")
    \/ \E a \in ShapeArgs \cup BadShapeArgs : Call_set_h_params(a)
    \/ \E feature_fix \in BOOLEAN, tree_fix \in BOOLEAN :
           Call_gen_params(feature_fix, tree_fix)
    \/ \E t \in ParamRefs : Call_set_params(t)

SpecShape == Init /\ [][NextShape]_vars

\* A default LearnModel whose update_posterior(x, y, 'MTRF') has fitted its
\* random forest; the step is the call
InitMerge ==
    /\ model_class = "LearnModel"
    /\ ops = 0
    /\ \E f \in Forests(Skeletons, MaxEstimators), b \in FitRows :
           last = Call("fit", TRUE, [forest |-> f, xs |-> b.xs, ys |-> b.ys], <<>>)
    /\ h0_g = Half /\ h0_metatree_list = <<>> /\ h0_metatree_prob_vec = None
    /\ hn_g = Half /\ hn_metatree_list = <<>> /\ hn_metatree_prob_vec = None
    /\ h_g = Half /\ h_metatree_list = <<>> /\ h_metatree_prob_vec = None
    /\ root = NoRoot

NextMerge ==
    /\ last.op = "fit"
    /\ Call_update_posterior_MTRF(last.arg.forest, [xs |-> last.arg.xs, ys |-> last.arg.ys])

SpecMerge == InitMerge /\ [][NextMerge]_vars

\* batches of two observations, the first with every entry of x equal to y
TwoRows ==
    {[xs |-> b.xs \o c.xs, ys |-> b.ys \o c.ys] : b \in FitRows, c \in SingleRows}

\* candidate lists of two references, and their weights: skewed, or all on the
\* second
PairArgs ==
    {[g |-> Some(Half), sub |-> TRUE, list |-> Some(l), vec |-> Some(v)] :
        l \in {<<RefTree(s, g), RefTree(s2, g)>> :
                  s \in RefSkeletons, s2 \in SmallSkeletons, g \in {<<1, 4>>, One}},
        v \in {Skewed(2), <<Zero, One>>}}

\* A LearnModel constructed with two candidates whose update_posterior(x, y,
\* alg_type) has validated its batch and, for 'MTRF', fitted its random forest;
\* the step is the reweight
InitReweight ==
    /\ model_class = "LearnModel"
    /\ ops = 0
    /\ \E f \in Forests(SmallSkeletons, MaxTrees), b \in SingleRows \cup TwoRows :
           last = Call("fit", TRUE, [forest |-> f, xs |-> b.xs, ys |-> b.ys], <<>>)
    /\ \E a \in PairArgs :
           ConstructedFields(set_h0_params(Fresh, Fresh, a), [S |-> Fresh, ok |-> TRUE])

NextReweight ==
    /\ last.op = "fit"
    /\ \/ Call_update_posterior_given_MT([xs |-> last.arg.xs, ys |-> last.arg.ys])
       \/ Call_update_posterior_MTRF(last.arg.forest,
                                     [xs |-> last.arg.xs, ys |-> last.arg.ys])

SpecReweight == InitReweight /\ [][NextReweight]_vars

\* A LearnModel constructed with two candidates whose _given_MT has read its
\* weights (line 1385); the steps are the passes of line 1388, candidate by
\* candidate in any interleaving, and the join
InitInterleave ==
    /\ model_class = "LearnModel"
    /\ ops = 0
    /\ \E a \in PairArgs :
           ConstructedFields(set_h0_params(Fresh, Fresh, a), [S |-> Fresh, ok |-> TRUE])
    /\ \E b \in TwoRows :
           last = Call("absorbing", TRUE,
                       [xs |-> b.xs, ys |-> b.ys, list |-> hn_metatree_list,
                        vec |-> hn_metatree_prob_vec],
                       [done |-> Fill(0, Len(hn_metatree_list)),
                        w |-> Val(hn_metatree_prob_vec)])

NextInterleave ==
    \/ \E i \in 1..Len(hn_metatree_list) :
           /\ last.op = "absorbing"
           /\ last.aux.done[i] < Len(last.arg.xs)
           /\ Step_absorb(i, absorb_row(hn_metatree_list, last.aux.w, last.arg.xs,
                                        last.arg.ys, i, last.aux.done[i] + 1))
    \/ Step_join

SpecInterleave == InitInterleave /\ [][NextInterleave]_vars

\* the stop probabilities a call of set_hn_params(hn_g=...) is given
CollapseWeights == {<<1, 4>>, <<9, 10>>}

\* A LearnModel constructed with a candidate list that is asked for estimates
\* between changes of its stop probability
InitCollapse == \E a \in InitArgs : Constructed("LearnModel", a)

NextCollapse ==
    \/ \E loss \in Losses : Call_estimate_params(loss)
    \/ \E g \in CollapseWeights : Call_set_hn_params([NoArgs EXCEPT !.g = Some(g)])

SpecCollapse == InitCollapse /\ [][NextCollapse]_vars

----------------------------------------------------------------------------
(* Notions the claims are stated with *)

\* the nodes a query x visits: from the root, the child x[k] of each node that
\* is not a leaf
RECURSIVE QueryPath(_, _, _)
QueryPath(t, p, x) ==
    IF t[p].leaf THEN {p}
    ELSE {p} \cup QueryPath(t, Append(p, x[t[p].k + 1]), x)

\* the predictive probability of y under a Beta(hn_alpha, hn_beta) posterior
Predictive(m, y) ==
    LET p1 == RDiv(m.hn_alpha, RAdd(m.hn_alpha, m.hn_beta))
    IN  IF y = 1 THEN p1 ELSE RSub(One, p1)

\* the evidence of (x, y) at the node p of the tree t: the leaf model's
\* predictive at a leaf, the mixture (1-g)*local + g*child at an internal node
RECURSIVE Evidence(_, _, _, _)
Evidence(t, p, x, y) ==
    IF t[p].leaf THEN Predictive(t[p].sub_model, y)
    ELSE RAdd(RMul(RSub(One, t[p].h_g), Predictive(t[p].sub_model, y)),
              RMul(t[p].h_g, Evidence(t, Append(p, x[t[p].k + 1]), x, y)))

\* the last call absorbed one observation into every candidate
Absorbed == last.op = "given_MT" /\ last.ok /\ Len(last.arg.xs) = 1
AbsorbedX == last.arg.xs[1]
AbsorbedY == last.arg.ys[1]

\* a tree with a split below its root
Deep(t) == \E p \in DOMAIN t : Len(p) = 2

----------------------------------------------------------------------------
(* C1: one absorb touches exactly the nodes on the root-to-leaf path that  *)
(* x selects: a node on the path keeps its split feature, leaf flag and    *)
(* children, and its leaf model changes; a node off the path keeps every   *)
(* field, its stop weight and leaf model included; no node is added or     *)
(* removed.                                                                *)
C1_AbsorbTouchesOnlyThePath ==
    [][Absorbed' =>
        \A i \in 1..Len(hn_metatree_list) :
            LET t == hn_metatree_list[i]
                u == hn_metatree_list'[i]
                path == QueryPath(t, <<>>, AbsorbedX')
            IN  /\ Len(hn_metatree_list') = Len(hn_metatree_list)
                /\ DOMAIN u = DOMAIN t
                /\ \A p \in DOMAIN t :
                       IF p \in path
                       THEN /\ [u[p] EXCEPT !.h_g = t[p].h_g,
                                            !.sub_model = t[p].sub_model] = t[p]
                            /\ u[p].sub_model # t[p].sub_model
                       ELSE u[p] = t[p]]_vars

\* an absorb into a tree with a split below its root, after an earlier absorb
C1_Witness ==
    /\ Absorbed
    /\ ops = 2
    /\ \E i \in 1..Len(hn_metatree_list) :
           /\ Deep(hn_metatree_list[i])
           /\ Cardinality(QueryPath(hn_metatree_list[i], <<>>, AbsorbedX)) = 3

----------------------------------------------------------------------------
(* C2: in one absorb, an internal node on the path with stop weight g      *)
(* returns (1-g)*local + g*child and its stop weight becomes               *)
(* g*child/((1-g)*local + g*child); a leaf returns its leaf model's        *)
(* predictive and keeps its stop weight.  The value the root returns is    *)
(* the factor the candidate's weight is multiplied by.                     *)
C2_MixtureAndStopWeight ==
    [][Absorbed' =>
        LET x == AbsorbedX'
            y == AbsorbedY'
            ev == [i \in 1..Len(hn_metatree_list) |->
                      Evidence(hn_metatree_list[i], <<>>, x, y)]
            w == Val(hn_metatree_prob_vec)
            total == RSum([i \in 1..Len(w) |-> RMul(w[i], ev[i])])
        IN  \A i \in 1..Len(hn_metatree_list) :
                LET t == hn_metatree_list[i]
                    u == hn_metatree_list'[i]
                IN  /\ \A p \in QueryPath(t, <<>>, x) :
                           IF t[p].leaf THEN u[p].h_g = t[p].h_g
                           ELSE u[p].h_g =
                                RDiv(RMul(t[p].h_g,
                                          Evidence(t, Append(p, x[t[p].k + 1]), x, y)),
                                     Evidence(t, p, x, y))
                    /\ Val(hn_metatree_prob_vec')[i] = RDiv(RMul(w[i], ev[i]), total)]_vars

\* a second absorb went through two internal nodes whose stop weights are no
\* longer the ones they were built with
C2_Witness ==
    /\ Absorbed
    /\ ops = 2
    /\ \E i \in 1..Len(hn_metatree_list) :
           LET t == hn_metatree_list[i]
           IN  /\ Deep(t)
               /\ Cardinality(QueryPath(t, <<>>, AbsorbedX)) = 3
               /\ t[<<>>].h_g \notin RefWeights
               /\ t[<<0>>].h_g \notin RefWeights

----------------------------------------------------------------------------
(* C3: the evidence a path node contributes is its leaf model's predictive *)
(* in the state before the observation: the predictive parameter the node  *)
(* holds after the absorb is the one of its posterior before it, that      *)
(* posterior has taken the observation exactly once, and the candidate's   *)
(* weight is multiplied by the evidence of the trees as they were.         *)
C3_PredictiveReadBeforeUpdate ==
    [][Absorbed' =>
        LET x == AbsorbedX'
            y == AbsorbedY'
            w == Val(hn_metatree_prob_vec)
        IN  \A i \in 1..Len(hn_metatree_list) :
                LET t == hn_metatree_list[i]
                    u == hn_metatree_list'[i]
                IN  /\ \A p \in QueryPath(t, <<>>, x) :
                           LET m == t[p].sub_model
                               n == u[p].sub_model
                           IN  /\ n.p_theta = Predictive(m, 1)
                               /\ n.hn_alpha = RAdd(m.hn_alpha, <<y, 1>>)
                               /\ n.hn_beta = RAdd(m.hn_beta, <<1 - y, 1>>)
                    /\ \A j \in 1..Len(hn_metatree_list) :
                           RMul(RMul(Val(hn_metatree_prob_vec')[i], w[j]),
                                Evidence(hn_metatree_list[j], <<>>, x, y))
                           = RMul(RMul(Val(hn_metatree_prob_vec')[j], w[i]),
                                  Evidence(t, <<>>, x, y))]_vars

\* a second absorb reached a node that had absorbed an observation before
C3_Witness ==
    /\ Absorbed
    /\ ops = 2
    /\ \E i \in 1..Len(hn_metatree_list) :
           LET m == hn_metatree_list[i][<<>>].sub_model
           IN  /\ RAdd(m.hn_alpha, m.hn_beta) = <<3, 1>>
               /\ m.p_theta # Half
               /\ Len(hn_metatree_list) = 2

----------------------------------------------------------------------------
\* a depth-1 tree: the root splits on feature 0 over two leaves
IsStump0(t) ==
    /\ DOMAIN t = {<<>>, <<0>>, <<1>>}
    /\ t[<<>>].leaf = FALSE /\ t[<<>>].k = 0
    /\ t[<<0>>].leaf /\ t[<<1>>].leaf

(* C4, as stated: absorbing x with x[0] = 0 and y = 1 into a depth-1 tree  *)
(* that splits on feature 0 over two leaves always changes the root's stop *)
(* weight, and leaves the right child's leaf model untouched.              *)
C4_RootStopWeightAlwaysChanges ==
    [][(Absorbed' /\ AbsorbedX'[1] = 0 /\ AbsorbedY' = 1) =>
        \A i \in 1..Len(hn_metatree_list) :
            LET t == hn_metatree_list[i]
                u == hn_metatree_list'[i]
            IN  IsStump0(t) =>
                    /\ u[<<>>].h_g # t[<<>>].h_g
                    /\ u[<<1>>].sub_model = t[<<1>>].sub_model]_vars

(* C4, amended: the absorb changes the root's stop weight g iff 0 < g < 1  *)
(* and the left child's predictive probability of y differs from that of   *)
(* the root's own leaf model (on a freshly built tree the two are equal    *)
(* and g stays as it is); the left child's leaf model takes the            *)
(* observation and the right child's leaf model is untouched.              *)
C4_RootStopWeightChangesIffEvidenceDiffers ==
    [][(Absorbed' /\ AbsorbedX'[1] = 0 /\ AbsorbedY' = 1) =>
        \A i \in 1..Len(hn_metatree_list) :
            LET t == hn_metatree_list[i]
                u == hn_metatree_list'[i]
                g == t[<<>>].h_g
            IN  IsStump0(t) =>
                    /\ (u[<<>>].h_g # g) <=>
                           /\ RLt(Zero, g) /\ RLt(g, One)
                           /\ Predictive(t[<<0>>].sub_model, 1)
                                  # Predictive(t[<<>>].sub_model, 1)
                    /\ u[<<0>>].sub_model # t[<<0>>].sub_model
                    /\ u[<<1>>].sub_model = t[<<1>>].sub_model]_vars

\* the first observation went to the right child and this one, with x[0] = 0
\* and y = 1, to the left: the root's stop weight is no longer the one the tree
\* was built with
C4_Witness ==
    /\ Absorbed /\ AbsorbedX[1] = 0 /\ AbsorbedY = 1
    /\ \E i \in 1..Len(hn_metatree_list) :
           LET t == hn_metatree_list[i]
               total(m) == RAdd(m.hn_alpha, m.hn_beta)
           IN  /\ IsStump0(t)
               /\ total(t[<<>>].sub_model) = <<3, 1>>
               /\ total(t[<<0>>].sub_model) = <<2, 1>>
               /\ total(t[<<1>>].sub_model) = <<2, 1>>
               /\ t[<<>>].h_g \notin RefWeights

----------------------------------------------------------------------------
\* the product of the denominators of the first i entries of w
RECURSIVE Denominators(_, _)
Denominators(w, i) == IF i = 0 THEN 1 ELSE Denominators(w, i - 1) * w[i][2]

\* a weight vector is there, its entries are non-negative and sum to 1
IsDistribution(v) ==
    /\ v # None
    /\ \A i \in 1..Len(Val(v)) : Val(v)[i] # NaN /\ RLe(Zero, Val(v)[i])
    /\ (LET n == Len(Val(v))
            sum[i \in 0..n] ==
                IF i = 0 THEN 0
                ELSE sum[i - 1] * Val(v)[i][2] + Val(v)[i][1] * Denominators(Val(v), i - 1)
        IN  sum[n] = Denominators(Val(v), n))

----------------------------------------------------------------------------
\* the candidate list l and its weight vector v have the same length, or the
\* list is empty and the vector absent
SameLength(l, v) ==
    IF l = <<>> THEN v = None ELSE v # None /\ Len(Val(v)) = Len(l)

(* C6, as stated: after every call of set_h_params, set_h0_params,         *)
(* set_hn_params or update_posterior that returns normally, in any         *)
(* sequence of calls, each candidate list and its weight vector have the   *)
(* same length, or the list is empty and the vector absent.                *)
C6_ListAndVectorHaveSameLength ==
    (last.ok /\ last.op \in {"set_h_params", "set_h0_params", "set_hn_params",
                             "given_MT", "MTRF"}) =>
        /\ SameLength(h_metatree_list, h_metatree_prob_vec)
        /\ SameLength(h0_metatree_list, h0_metatree_prob_vec)
        /\ SameLength(hn_metatree_list, hn_metatree_prob_vec)

----------------------------------------------------------------------------
(* Notions the claims about the merge are stated with *)

\* the topology of a tree: the split feature at each path, NoneK at a leaf
TreeShape(t) == [p \in DOMAIN t |-> IF t[p].leaf THEN NoneK ELSE t[p].k]

TreeShapes(l) == [i \in 1..Len(l) |-> TreeShape(l[i])]

\* the share of the estimators of f that have the topology s
ClassMass(f, s) == Frac(Cardinality({j \in 1..Len(f) : f[j] = s}), Len(f))

\* update_posterior(x, y, 'MTRF') has returned; the forest it had fitted
Merged == last.op = "MTRF" /\ last.ok
Forest == last.arg.forest

----------------------------------------------------------------------------
(* C7, as stated: of each group of structurally equal candidates the merge *)
(* keeps the first in list order, at its place among the survivors, with   *)
(* the group's total mass, and drops the later ones.                       *)
C7_MergeKeepsTheFirstOfEachClass ==
    Merged =>
        LET firsts == {i \in 1..Len(Forest) : \A j \in 1..(i - 1) : Forest[j] # Forest[i]}
            kept == Select(Forest, firsts, 1)
        IN  /\ TreeShapes(hn_metatree_list) = kept
            /\ last.aux.merged_vec = [i \in 1..Len(kept) |-> ClassMass(Forest, kept[i])]

(* C7, amended: of each group of structurally equal candidates the merge   *)
(* keeps the last in list order, at its place among the survivors, with    *)
(* the group's total mass: the earlier candidate is dropped and its mass   *)
(* is added to the later one.                                              *)
C7_MergeKeepsTheLastOfEachClass ==
    Merged =>
        LET lasts == {i \in 1..Len(Forest) :
                         \A j \in (i + 1)..Len(Forest) : Forest[j] # Forest[i]}
            kept == Select(Forest, lasts, 1)
        IN  /\ TreeShapes(hn_metatree_list) = kept
            /\ last.aux.merged_vec = [i \in 1..Len(kept) |-> ClassMass(Forest, kept[i])]

\* the first and the third estimator are equal, the second is another
C7_Witness ==
    /\ Merged
    /\ Len(Forest) = 3 /\ Forest[1] = Forest[3] /\ Forest[2] # Forest[1]
    /\ Len(hn_metatree_list) = 2

----------------------------------------------------------------------------
(* C8: after the merge no two candidates are structurally equal, there is  *)
(* one candidate for each class of equal inputs, its weight is the sum of  *)
(* the weights of the inputs of its class (three or more included), and    *)
(* the total mass is that of the inputs; two identical trees with weights  *)
(* 1/2 and 1/2 leave one candidate with weight 1.                          *)
C8_MergeLeavesOnePerClass ==
    Merged =>
        LET shapes == TreeShapes(hn_metatree_list)
            w == last.aux.merged_vec
            n == Len(shapes)
        IN  /\ Len(w) = n
            /\ \A i, j \in 1..n : shapes[i] = shapes[j] => i = j
            /\ {shapes[i] : i \in 1..n} = {Forest[i] : i \in 1..Len(Forest)}
            /\ \A i \in 1..n : w[i] = ClassMass(Forest, shapes[i])
            /\ IsDistribution(Some(w))
            /\ (Len(Forest) = 2 /\ Forest[1] = Forest[2]) => (n = 1 /\ w = <<One>>)

\* three equal estimators that split twice
C8_Witness ==
    /\ Merged
    /\ Len(Forest) = 3 /\ Forest[1] = Forest[2] /\ Forest[2] = Forest[3]
    /\ <<0, 0>> \in DOMAIN Forest[1]
    /\ Len(hn_metatree_list) = 1

----------------------------------------------------------------------------
\* the candidates _MTRF hands to the merge: one fresh tree per estimator
FreshCandidates ==
    [i \in 1..Len(Forest) |->
        _copy_tree_from_sklearn_tree(
            (<<>> :> _Node(0, AllFeatures, Half, BernoulliLearnModel)),
            <<>>, Forest[i], Half)]

(* C9: the merge is idempotent: merging the list and the weights a merge   *)
(* returned gives the same candidates in the same order with the same      *)
(* weights; so does merging the candidates after they absorbed the data.   *)
C9_MergeIsIdempotent ==
    Merged =>
        LET m == _marge_metatrees(FreshCandidates, Uniform(Len(Forest)))
        IN  /\ m[2] = last.aux.merged_vec
            /\ TreeShapes(m[1]) = TreeShapes(hn_metatree_list)
            /\ _marge_metatrees(m[1], m[2]) = m
            /\ _marge_metatrees(hn_metatree_list, m[2]) = <<hn_metatree_list, m[2]>>

\* two equal estimators were merged and a third was kept
C9_Witness ==
    /\ Merged
    /\ Len(Forest) = 3 /\ Forest[1] = Forest[2] /\ Forest[3] # Forest[1]
    /\ Len(hn_metatree_list) = 2

----------------------------------------------------------------------------
\* structural equality as the claim defines it, on topologies
RECURSIVE StructurallyEqual(_, _, _, _)
StructurallyEqual(s1, p1, s2, p2) ==
    IF s1[p1] = NoneK /\ s2[p2] = NoneK THEN TRUE
    ELSE IF s1[p1] = NoneK \/ s2[p2] = NoneK THEN FALSE
    ELSE /\ s1[p1] = s2[p2]
         /\ \A i \in 0..(c_num_children - 1) :
                StructurallyEqual(s1, Append(p1, i), s2, Append(p2, i))

(* C10: _compare_metatree_recursion is true of two candidates iff both are *)
(* leaves, or both split on the same feature and their children are equal  *)
(* pair by pair; a leaf never equals an internal node; a candidate that    *)
(* has absorbed data, so that its stop weights and leaf models differ,     *)
(* compares as it did when fresh.                                          *)
C10_CompareIsStructuralEquality ==
    Merged =>
        /\ \A i, j \in 1..Len(Forest) :
               _compare_metatree_recursion(FreshCandidates[i], <<>>, FreshCandidates[j], <<>>)
               = StructurallyEqual(Forest[i], <<>>, Forest[j], <<>>)
        /\ \A i \in 1..Len(Forest), j \in 1..Len(hn_metatree_list) :
               /\ _compare_metatree_recursion(FreshCandidates[i], <<>>,
                                              hn_metatree_list[j], <<>>)
                  = StructurallyEqual(Forest[i], <<>>, TreeShape(hn_metatree_list[j]), <<>>)
               /\ _compare_metatree_recursion(hn_metatree_list[j], <<>>,
                                              FreshCandidates[i], <<>>)
                  = StructurallyEqual(TreeShape(hn_metatree_list[j]), <<>>, Forest[i], <<>>)

\* a leaf, and two estimators that split on the same feature and differ below
\* their second child only
C10_Witness ==
    /\ Merged
    /\ Len(Forest) = 3
    /\ DOMAIN Forest[1] = {<<>>}
    /\ Forest[2][<<>>] = Forest[3][<<>>] /\ Forest[2][<<>>] # NoneK
    /\ Forest[2][<<0>>] = NoneK /\ Forest[3][<<0>>] = NoneK
    /\ Forest[2][<<1>>] # NoneK /\ Forest[3][<<1>>] = NoneK
    /\ hn_metatree_list[2][<<>>].sub_model # BernoulliLearnModel

----------------------------------------------------------------------------
(* C11: after a reweight over a batch, each candidate's weight is its      *)
(* prior weight times the product of the evidences of the observations,    *)
(* absorbed into that candidate one by one in the given order, divided by  *)
(* the sum of that quantity over the candidates; a candidate whose prior   *)
(* weight is 0 keeps weight 0.  The priors of the given-topology update    *)
(* are the stored weights, those of the forest update the merged weights.  *)

\* the product of the evidences of the rows j.. of a batch, each computed on
\* the tree the rows before it have been absorbed into
RECURSIVE BatchEvidence(_, _, _, _)
BatchEvidence(t, xs, ys, j) ==
    IF j > Len(xs) THEN One
    ELSE RMul(Evidence(t, <<>>, xs[j], ys[j]),
              BatchEvidence(_update_posterior_recursion(t, <<>>, xs[j], ys[j]).tree,
                            xs, ys, j + 1))

Scores(l, prior, xs, ys) ==
    [i \in 1..Len(l) |-> RMul(prior[i], BatchEvidence(l[i], xs, ys, 1))]

Reweighted(l, prior, xs, ys) ==
    [i \in 1..Len(l) |-> RDiv(Scores(l, prior, xs, ys)[i], RSum(Scores(l, prior, xs, ys)))]

\* the candidates the forest update absorbs into: the merged copies
MergedCopies(forest) ==
    _marge_metatrees(tmp_metatree_list(Sn, h0_g, forest, 1),
                     Fill(Frac(1, Len(forest)), Len(forest)))

ReweightedBy(l, prior, xs, ys, new) ==
    /\ new = Some(Reweighted(l, prior, xs, ys))
    /\ \A i \in 1..Len(l) : prior[i] = Zero => Val(new)[i] = Zero

C11_ReweightIsPriorTimesEvidence ==
    [][/\ (last'.op = "given_MT" /\ last'.ok) =>
             ReweightedBy(hn_metatree_list, Val(hn_metatree_prob_vec),
                          last'.arg.xs, last'.arg.ys, hn_metatree_prob_vec')
       /\ (last'.op = "MTRF" /\ last'.ok) =>
             ReweightedBy(MergedCopies(last'.arg.forest)[1],
                          MergedCopies(last'.arg.forest)[2],
                          last'.arg.xs, last'.arg.ys, hn_metatree_prob_vec')]_vars

\* a batch of two observations has moved the weights of two candidates
C11_Witness ==
    /\ last.op = "given_MT" /\ last.ok
    /\ Len(last.arg.xs) = 2
    /\ Len(hn_metatree_list) = 2
    /\ Val(h0_metatree_prob_vec)[1] # Zero
    /\ hn_metatree_prob_vec # h0_metatree_prob_vec

----------------------------------------------------------------------------
(* C12: pred_and_update(x, y, loss) returns the prediction of the ensemble *)
(* as it was before the call, the value calc_pred_dist(x) followed by      *)
(* make_prediction(loss) gives on the pre-call state, and only then        *)
(* absorbs (x, y) with the given-topology update; the returned value does  *)
(* not depend on y.                                                        *)

\* what calc_pred_dist(x) followed by make_prediction(loss) gives on the
\* candidates l with the weights vec
PredictionOn(l, vec, x, loss) ==
    make_prediction(calc_pred_dist(l, x, 1).list, vec, x, loss).val

C12_PredictionPrecedesTheUpdate ==
    [][(last'.op = "pred_and_update" /\ last'.ok) =>
           /\ last'.aux.val = PredictionOn(hn_metatree_list, hn_metatree_prob_vec,
                                           last'.arg.x, last'.arg.loss)
           /\ Sn' = _given_MT([Sn EXCEPT !.list = calc_pred_dist(hn_metatree_list,
                                                                last'.arg.x, 1).list],
                              <<last'.arg.x>>, last'.arg.ys).S]_vars

\* a returned prediction that the ensemble no longer gives after the call
C12_Witness ==
    /\ last.op = "pred_and_update" /\ last.ok
    /\ last.aux.val # PredictionOn(hn_metatree_list, hn_metatree_prob_vec,
                                   last.arg.x, last.arg.loss)

----------------------------------------------------------------------------
(* C13: make_prediction(loss='0-1') returns the mode of the candidate that *)
(* maximises ensemble weight times mode probability, the candidate's mode  *)
(* and mode probability found along the query path by keeping, at each     *)
(* internal node, the node's own mode if (1-g)*mode_prob_local >           *)
(* g*mode_prob_child and the child's otherwise; of several candidates      *)
(* with the maximal product the first in list order decides.               *)

\* the mode a leaf model reports and the mass its predictive gives it
LocalMode(m) ==
    IF RLt(Half, m.p_theta) THEN [mode |-> 1, mode_prob |-> m.p_theta]
    ELSE [mode |-> 0, mode_prob |-> RSub(One, m.p_theta)]

RECURSIVE PathMode(_, _, _)
PathMode(t, p, x) ==
    IF t[p].leaf THEN LocalMode(t[p].sub_model)
    ELSE LET below == PathMode(t, Append(p, x[t[p].k + 1]), x)
             here == LocalMode(t[p].sub_model)
         IN  IF RLt(RMul(t[p].h_g, below.mode_prob),
                    RMul(RSub(One, t[p].h_g), here.mode_prob))
             THEN here ELSE below

ModeProduct(i, x) ==
    RMul(Val(hn_metatree_prob_vec)[i], PathMode(hn_metatree_list[i], <<>>, x).mode_prob)

\* the last call was calc_pred_dist(x) and make_prediction(loss), and returned
Predicted(loss) ==
    last.op = "make_prediction" /\ last.ok /\ last.arg.loss = loss

----------------------------------------------------------------------------
(* C14: make_prediction(loss='squared') returns the sum over the           *)
(* candidates of ensemble weight times the candidate's expectation: at a   *)
(* leaf the point estimate its leaf model reports, at an internal node     *)
(* (1-g) times the local point estimate plus g times the expectation of    *)
(* the child the query's feature value selects.                            *)

RECURSIVE Expectation(_, _, _)
Expectation(t, p, x) ==
    IF t[p].leaf THEN t[p].sub_model.p_theta
    ELSE RAdd(RMul(RSub(One, t[p].h_g), t[p].sub_model.p_theta),
              RMul(t[p].h_g, Expectation(t, Append(p, x[t[p].k + 1]), x)))

----------------------------------------------------------------------------
(* C15: a loss outside the supported set fails with a criteria error and   *)
(* is never replaced silently: make_prediction with a loss other than      *)
(* 'squared' and '0-1' and estimate_params with a loss other than '0-1'    *)
(* raise CriteriaError, and pred_and_update with such a loss raises before *)
(* the observation is absorbed: every stop weight, leaf-model posterior    *)
(* and ensemble weight is what it was.                                     *)

\* the stop weights and leaf-model posteriors of the candidates l
Posteriors(l) ==
    [i \in 1..Len(l) |->
        [p \in DOMAIN l[i] |->
            <<l[i][p].h_g, l[i][p].sub_model.hn_alpha, l[i][p].sub_model.hn_beta>>]]

----------------------------------------------------------------------------
(* C16: a call of GenModel.set_h_params, LearnModel.set_h0_params or       *)
(* LearnModel.set_hn_params that fails with a configuration error (a       *)
(* weight vector that does not sum to 1, a stop probability outside        *)
(* [0, 1], list and vector lengths that differ) fails before any state is  *)
(* touched: the stored stop probability, candidate list and weight vector  *)
(* are what they were before the call.                                     *)

\* the arguments a (as the call record keeps them) are a configuration error
\* for a model whose candidate list holds n trees
ConfigurationError(a, n) ==
    \/ a.g # None /\ ~float_in_closed01(Val(a.g))
    \/ a.vec # None /\ ~float_vec_sum_1(Val(a.vec))
    \/ a.vec # None /\ Len(Val(a.vec)) # (IF a.n = -1 THEN n ELSE a.n)

C16_FailedSetTouchesNoState ==
    [][/\ (last'.op = "set_hn_params" /\ ~last'.ok
             /\ ConfigurationError(last'.arg, Len(hn_metatree_list))) =>
              UNCHANGED <<learn_vars, gen_vars>>
       /\ (last'.op = "set_h0_params" /\ ~last'.ok
             /\ ConfigurationError(last'.arg, Len(h0_metatree_list))) =>
              UNCHANGED <<learn_vars, gen_vars>>
       /\ (last'.op = "set_h_params" /\ ~last'.ok
             /\ ConfigurationError(last'.arg, Len(h_metatree_list))) =>
              UNCHANGED <<learn_vars, gen_vars>>]_vars

----------------------------------------------------------------------------
(* C17: update_posterior and pred_and_update reject an observation whose x *)
(* has the wrong length, an entry >= c_num_children or a negative entry,   *)
(* or whose y shape does not match x, with a data-format error raised      *)
(* before any tree is touched: no node's stop weight or leaf model and no  *)
(* ensemble weight has changed when the error is raised, also when the     *)
(* offending row is not the first of a batch.                              *)

C17_RejectedDataTouchesNoTree ==
    [][(last'.op \in {"update_posterior", "pred_and_update"}
          /\ last'.aux.err = "DataFormatError") =>
           /\ hn_metatree_list' = hn_metatree_list
           /\ hn_metatree_prob_vec' = hn_metatree_prob_vec
           /\ hn_g' = hn_g]_vars

----------------------------------------------------------------------------
(* The trees a model holds *)

TreesOf(l) == {l[i] : i \in 1..Len(l)}

HeldTrees ==
    TreesOf(h0_metatree_list) \cup TreesOf(hn_metatree_list)
    \cup TreesOf(h_metatree_list)
    \cup (IF model_class = "GenModel" THEN {root} ELSE {})

\* the child slots of the node at p that are set
SetSlots(t, p) == {i \in 0..(c_num_children - 1) : Append(p, i) \in DOMAIN t}

\* the nodes on the root-to-leaf paths of t: those below no node flagged leaf
OnPaths(t) ==
    {p \in DOMAIN t : \A n \in 0..(Len(p) - 1) : ~t[SubSeq(p, 1, n)].leaf}

----------------------------------------------------------------------------
(* C18: in every tree a model holds, after any sequence of gen_params,     *)
(* set_params, set_h_params, set_h0_params, set_hn_params,                 *)
(* update_posterior and estimate_params calls, the child slots of a node   *)
(* are all set or all unset, and the leaf flag agrees with them: a node    *)
(* flagged leaf has no child set, a node not flagged leaf has every child  *)
(* set.                                                                    *)

C18_LeafFlagAgreesWithChildren ==
    \A t \in HeldTrees : \A p \in DOMAIN t :
        /\ SetSlots(t, p) \in {{}, 0..(c_num_children - 1)}
        /\ t[p].leaf => SetSlots(t, p) = {}
        /\ ~t[p].leaf => SetSlots(t, p) = 0..(c_num_children - 1)

----------------------------------------------------------------------------
(* C19: in every tree reachable by gen_params calls (with any mix of       *)
(* feature_fix and tree_fix), set_params, set_h_params, set_h0_params,     *)
(* set_hn_params and estimate_params, no split feature occurs twice on a   *)
(* root-to-leaf path, and no gen_params call aborts because a node's       *)
(* retained feature is no longer among its candidates.                     *)

C19_NoFeatureTwiceOnAPath ==
    /\ \A t \in HeldTrees : \A p \in OnPaths(t) : \A n \in 0..(Len(p) - 1) :
           ~t[p].leaf => t[p].k # t[SubSeq(p, 1, n)].k
    /\ last.op = "gen_params" => last.ok

----------------------------------------------------------------------------
(* C20: after any sequence of public operations every node whose depth is  *)
(* c_d_max is a leaf with stop weight 0, so that no tree holds a node      *)
(* deeper than c_d_max, and every node whose depth is c_k is a leaf.       *)

C20_DepthBoundsForceLeaves ==
    \A t \in HeldTrees : \A p \in DOMAIN t :
        /\ t[p].depth = c_d_max => t[p].leaf /\ t[p].h_g = Zero
        /\ t[p].depth <= c_d_max
        /\ t[p].depth = c_k => t[p].leaf

----------------------------------------------------------------------------
(* C21: update_posterior(alg_type='given_MT') and pred_and_update keep the *)
(* ensemble fixed: the number and order of the candidates and every node's *)
(* leaf flag, split feature and children (with its depth and its feature   *)
(* candidates) are what they were before the call; the weight vector is    *)
(* the same array, so it keeps its length; only weights, stop weights and  *)
(* leaf models change.                                                     *)

\* the part of a tree the given-topology update is to leave alone
Topology(t) ==
    [p \in DOMAIN t |-> [leaf |-> t[p].leaf, k |-> t[p].k, depth |-> t[p].depth,
                         k_candidates |-> t[p].k_candidates]]

Topologies(l) == [i \in 1..Len(l) |-> Topology(l[i])]

C21_GivenTopologyKeepsTheEnsemble ==
    [][last'.op \in {"given_MT", "pred_and_update"} =>
          /\ Topologies(hn_metatree_list') = Topologies(hn_metatree_list)
          /\ (hn_metatree_prob_vec' = None) = (hn_metatree_prob_vec = None)
          /\ hn_metatree_prob_vec # None =>
                 Len(Val(hn_metatree_prob_vec')) = Len(Val(hn_metatree_prob_vec))
          /\ <<h0_g, h0_metatree_list, h0_metatree_prob_vec, hn_g>>' =
                 <<h0_g, h0_metatree_list, h0_metatree_prob_vec, hn_g>>]_vars

\* a pred_and_update that returned, after an update_posterior, on two
\* candidates of which the first is split and has seen its stop weight move
C21_Witness ==
    /\ last.op = "pred_and_update" /\ last.ok /\ ops = 2
    /\ Len(hn_metatree_list) = 2
    /\ <<0>> \in DOMAIN hn_metatree_list[1]
    /\ hn_metatree_list[1][<<>>].h_g \notin RefWeights
    /\ Val(hn_metatree_prob_vec) # Skewed(2)

----------------------------------------------------------------------------
(* C22: absorbing an observation into candidate i changes no node and no   *)
(* score of a candidate j # i, so the passes of a batch, run candidate by  *)
(* candidate in any interleaving that keeps each candidate's row order,    *)
(* end after the join in the trees and the weights of the sequential       *)
(* _given_MT.                                                              *)

\* what the sequential _given_MT makes of the state the call began in
Sequential ==
    _given_MT([g |-> hn_g, list |-> last.arg.list, vec |-> last.arg.vec],
              last.arg.xs, last.arg.ys)

C22_InterleavedAbsorbsAgreeWithSequential ==
    /\ last.op = "joined" =>
           /\ hn_metatree_list = Sequential.S.list
           /\ hn_metatree_prob_vec = Sequential.S.vec
    /\ last.op = "absorbing" =>
           \A i \in 1..Len(hn_metatree_list) :
               last.aux.done[i] = 0 =>
                   /\ hn_metatree_list[i] = last.arg.list[i]
                   /\ last.aux.w[i] = Val(last.arg.vec)[i]

\* a join after two candidates of different shape absorbed two rows each,
\* with weights that are neither the prior nor degenerate
C22_Witness ==
    /\ last.op = "joined"
    /\ Len(hn_metatree_list) = 2
    /\ DOMAIN hn_metatree_list[1] # DOMAIN hn_metatree_list[2]
    /\ hn_metatree_prob_vec # last.arg.vec
    /\ \A i \in 1..2 : RLt(Zero, Val(hn_metatree_prob_vec)[i])

----------------------------------------------------------------------------
(* C23: estimate_params works on a frozen posterior: apart from the        *)
(* map_leaf flag a call leaves, for every node of every candidate, the     *)
(* children, the split feature, the leaf flag, the stop weight and the     *)
(* leaf model as they were, and the weight vector too.                     *)

\* a tree without its map_leaf flags
Frozen(t) ==
    [p \in DOMAIN t |-> [leaf |-> t[p].leaf, k |-> t[p].k, h_g |-> t[p].h_g,
                         sub_model |-> t[p].sub_model]]

FrozenList(l) == [i \in 1..Len(l) |-> Frozen(l[i])]

C23_EstimateLeavesThePosterior ==
    [][last'.op = "estimate_params" =>
          /\ FrozenList(hn_metatree_list') = FrozenList(hn_metatree_list)
          /\ hn_metatree_prob_vec' = hn_metatree_prob_vec
          /\ hn_g' = hn_g]_vars

----------------------------------------------------------------------------
(* C24: estimate_params selects the candidate whose weight times the MAP   *)
(* mass of its collapsed tree is largest, the first in list order among    *)
(* those that tie for the largest value, and the first candidate when      *)
(* every product is 0.                                                     *)

\* weight times MAP mass of every candidate the model holds
MapProducts ==
    [i \in 1..Len(hn_metatree_list) |->
        RMul(Val(hn_metatree_prob_vec)[i],
             _map_recursion(hn_metatree_list[i], <<>>, hn_g).val)]

\* the first index at which w is largest
FirstLargest(w) ==
    CHOOSE i \in 1..Len(w) :
        \A j \in 1..Len(w) : IF j < i THEN RLt(w[j], w[i]) ELSE RLe(w[j], w[i])

C24_FirstOfTheLargestProducts ==
    [][last'.op = "estimate_params" /\ last'.ok =>
          /\ Val(last'.aux.val).map_index = FirstLargest(MapProducts)
          /\ Val(last'.aux.val).map_prob = MapProducts[FirstLargest(MapProducts)]]_vars

\* an estimate over two candidates of equal weight whose products tie: the
\* first was selected
C24_Witness ==
    /\ last.op = "estimate_params" /\ last.ok
    /\ Len(hn_metatree_list) = 2
    /\ MapProducts[1] = MapProducts[2]
    /\ RLt(Zero, MapProducts[1])
    /\ Val(last.aux.val).map_index = 1

----------------------------------------------------------------------------
(* C25: set_params, set_h_params, set_h0_params and set_hn_params, given a *)
(* reference that splits a node on a feature an ancestor uses or on a      *)
(* feature index outside 0..c_k-1, end in an error: none of these calls    *)
(* returns having installed a tree in which a feature repeats on a path    *)
(* or a split feature lies outside 0..c_k-1.                               *)

\* no inner node on a path of t splits on the feature of a node above it or
\* on a feature outside the budget
WithinBudget(t) ==
    \A p \in OnPaths(t) :
        ~t[p].leaf =>
            /\ t[p].k \in 0..(c_k - 1)
            /\ \A n \in 0..(Len(p) - 1) : t[p].k # t[SubSeq(p, 1, n)].k

C25_IncompatibleReferenceIsRejected ==
    (last.op \in {"set_params", "set_h_params", "set_h0_params", "set_hn_params"}
     /\ last.ok)
        => \A t \in HeldTrees : WithinBudget(t)

----------------------------------------------------------------------------
(* C26: in the MAP collapse, at an internal node with stop weight g whose  *)
(* children returned the masses m_1..m_c, the node is declared a leaf and  *)
(* returns 1-g iff 1-g > g*m_1*...*m_c; otherwise, a tie included, it is   *)
(* declared a split and returns g*m_1*...*m_c.  The mass returned is the   *)
(* larger of the two and lies in [0,1].                                    *)

\* the inner nodes of t the collapse walks
InnerNodes(t) ==
    {p \in OnPaths(t) : ~t[p].leaf /\ SetSlots(t, p) = 0..(c_num_children - 1)}

\* the product of the masses the children of p return, from child i on
RECURSIVE MassProduct(_, _, _)
MassProduct(t, p, i) ==
    IF i = c_num_children THEN One
    ELSE RMul(_map_recursion(t, Append(p, i), hn_g).val, MassProduct(t, p, i + 1))

StopMass(t, p) == RSub(One, t[p].h_g)
SplitMass(t, p) == RMul(t[p].h_g, MassProduct(t, p, 0))

\* r is what _map_recursion returns at p
DeclaredAt(t, p, r, stop, split) ==
    /\ r.ok
    /\ r.tree[p].map_leaf = RLt(split, stop)
    /\ r.val = IF RLt(split, stop) THEN stop ELSE split
    /\ RLe(stop, r.val) /\ RLe(split, r.val)
    /\ RLe(Zero, r.val) /\ RLe(r.val, One)
    /\ (last.op = "estimate_params" /\ last.ok) => t[p].map_leaf = RLt(split, stop)

C26_InnerNodeTakesTheLargerMass ==
    \A t \in TreesOf(hn_metatree_list) : \A p \in InnerNodes(t) :
        DeclaredAt(t, p, _map_recursion(t, p, hn_g), StopMass(t, p), SplitMass(t, p))

\* after an estimate, a candidate with an inner node declared a split on a
\* tie and an inner node declared a leaf
C26_Witness ==
    /\ last.op = "estimate_params" /\ last.ok
    /\ \E t \in TreesOf(hn_metatree_list) :
           /\ \E p \in InnerNodes(t) :
                  StopMass(t, p) = SplitMass(t, p) /\ ~t[p].map_leaf
           /\ \E p \in InnerNodes(t) :
                  RLt(SplitMass(t, p), StopMass(t, p)) /\ t[p].map_leaf

----------------------------------------------------------------------------
(* C27: in the MAP collapse, a node that is a leaf of the candidate tree   *)
(* is a declared leaf with mass 1 when its depth is the maximum depth or   *)
(* no feature is left; otherwise it is declared a leaf with mass           *)
(* 1 - stop_weight iff 1 - stop_weight exceeds                             *)
(* stop_weight ^ ((c^(d_max - depth) - 1) / (c - 1)), stop_weight being    *)
(* the node's own stop weight, and a node declared a leaf gets no          *)
(* children.                                                               *)

\* the leaves of t the collapse reaches
LeafNodes(t) == {p \in OnPaths(t) : t[p].leaf}

\* the mass of the full subtree below a node of stop weight g at depth d
FullMass(g, d) == RPow(g, full_tree_inner_nodes(c_d_max - d))

\* r is what _map_recursion returns at the leaf p, g the node's stop weight
LeafDeclaredAt(t, p, r, g) ==
    IF t[p].depth = c_d_max \/ t[p].depth = c_k
    THEN r.tree[p].map_leaf /\ r.val = One
    ELSE /\ RLt(FullMass(g, t[p].depth), RSub(One, g))
                <=> (r.tree[p].map_leaf /\ r.val = RSub(One, g))
         /\ RLt(FullMass(g, t[p].depth), RSub(One, g))
                => DOMAIN r.tree = DOMAIN t

C27_LeafDeclaredByItsOwnStopWeight ==
    \A t \in TreesOf(hn_metatree_list) : \A p \in LeafNodes(t) :
        LeafDeclaredAt(t, p, _map_recursion(t, p, hn_g), t[p].h_g)

\* the same with the stop probability of the model in place of the node's
C27_LeafDeclaredByTheModelStopWeight ==
    \A t \in TreesOf(hn_metatree_list) : \A p \in LeafNodes(t) :
        (t[p].map_leaf = FALSE \/ t[p].depth \in {c_d_max, c_k}) =>
            LeafDeclaredAt(t, p, _map_recursion(t, p, hn_g), hn_g)

----------------------------------------------------------------------------
(* C28: in every tree, after any sequence of gen_params, set_params,       *)
(* set_h_params, set_h0_params and set_hn_params calls, re-pointing an     *)
(* existing tree at another reference topology included, every child has   *)
(* the depth of its parent plus one and the feature candidates of its      *)
(* parent without the parent's current split feature.                      *)

\* the child at slot i of the node at p descends from it as the nodes are built
ChildFollowsParent(t, p, i) ==
    /\ t[Append(p, i)].depth = t[p].depth + 1
    /\ t[Append(p, i)].k_candidates = Remove(t[p].k_candidates, t[p].k)

C28_ChildrenFollowTheirParent ==
    \A t \in HeldTrees : \A p \in OnPaths(t) :
        ~t[p].leaf => \A i \in SetSlots(t, p) : ChildFollowsParent(t, p, i)

----------------------------------------------------------------------------
(* C29: an absorb with strictly positive evidences takes a stop weight in  *)
(* [0,1] to a stop weight in [0,1]; a stop weight of exactly 0 stays 0 and *)
(* a stop weight of exactly 1 stays 1.                                     *)

InUnit(g) == g[2] > 0 /\ RLe(Zero, g) /\ RLe(g, One)

\* the stop weight g of a node and the one it has after an absorb
StopWeightKept(g, g2) ==
    /\ InUnit(g) => InUnit(g2)
    /\ g = Zero => g2 = Zero
    /\ g = One => g2 = One

C29_StopWeightsStayInTheUnitInterval ==
    [][(last'.op = "given_MT" /\ last'.ok) =>
          \A i \in 1..Len(hn_metatree_list) :
              \A p \in DOMAIN hn_metatree_list[i] :
                  StopWeightKept(hn_metatree_list[i][p].h_g,
                                 hn_metatree_list'[i][p].h_g)]_vars

\* the inner nodes of t whose stop weight is none of the weights of the
\* references
MovedNodes(t) == {p \in DOMAIN t : ~t[p].leaf /\ t[p].h_g \notin RefWeights}

\* after two absorbs, a root whose stop weight has moved inside (0,1)
C29_Witness ==
    /\ last.op = "given_MT" /\ last.ok /\ ops = MaxOps
    /\ \E t \in TreesOf(hn_metatree_list) :
           /\ <<>> \in MovedNodes(t)
           /\ RLt(Zero, t[<<>>].h_g) /\ RLt(t[<<>>].h_g, One)

----------------------------------------------------------------------------
(* C30: the tree estimate_params returns depends on the current posterior  *)
(* only: after any sequence of estimate_params and set_hn_params(hn_g=...) *)
(* calls, estimate_params returns the tree shape that a model with the     *)
(* same posterior and no estimate_params call behind it returns.           *)

\* the node as a model that never ran estimate_params holds it
Uncollapsed(node) ==
    IF node.leaf THEN [node EXCEPT !.map_leaf = FALSE, !.k = NoneK]
    ELSE [node EXCEPT !.map_leaf = FALSE]

\* the candidate tree without what earlier collapses left in it: the nodes
\* added below its leaves and the declared-leaf flags
UncollapsedTree(t) == [p \in OnPaths(t) |-> Uncollapsed(t[p])]

UncollapsedPosterior ==
    [g |-> hn_g,
     list |-> [i \in 1..Len(hn_metatree_list) |-> UncollapsedTree(hn_metatree_list[i])],
     vec |-> hn_metatree_prob_vec]

\* the shape of a returned tree: where it splits, on what, and where it ends
ShapeOf(t) ==
    {<<p, t[p].leaf, IF t[p].leaf THEN NoneK ELSE t[p].k>> : p \in OnPaths(t)}

\* r and c are two outcomes of estimate_params
SameEstimate(r, c) ==
    /\ r.ok = c.ok
    /\ r.ok => ShapeOf(Val(r.val).root) = ShapeOf(Val(c.val).root)

C30_EstimateForgetsEarlierEstimates ==
    SameEstimate(estimate_params(Sn, "0-1"),
                 estimate_params(UncollapsedPosterior, "0-1"))

====
